---- MODULE Spec2Model ----
(***************************************************************************)
(* Verification model of the pdf-sanitization backend:                     *)
(*   api_app.py        request handlers, semaphore gate, PassLog           *)
(*   template_utils.py TemplateManager (versioned template store)          *)
(*   pipeline.py       process_batch (layout filter, scoring gate, report) *)
(* Strings are sequences of one-character strings, so that the string      *)
(* conversions of the code (lower, strip, filter, regex parse, str/int)    *)
(* are computed and not assumed.                                           *)
(***************************************************************************)
EXTENDS Integers, Sequences, FiniteSets, TLC

\* Python's None for a string-valued result: the empty string (both are falsy)
NoId == <<>>

\* ---------------------------------------------------------------- strings

Digits == <<"0", "1", "2", "3", "4", "5", "6", "7", "8", "9">>

IsDigit(c) == \E i \in 1..10 : Digits[i] = c

\* ASCII letters that occur in the modelled names
IsAsciiLetter(c) ==
    c \in {"a", "b", "c", "d", "e", "f", "g", "i", "j", "l", "m", "n", "o", "p", "s", "t", "v", "w",
           "x", "z", "A", "B"}

\* letters outside ASCII for which Python's str.isalnum() is true
IsUnicodeLetter(c) == c \in {"é"}

\* str.isalnum() of one character
IsAlnum(c) == IsAsciiLetter(c) \/ IsDigit(c) \/ IsUnicodeLetter(c)

\* the character class [A-Za-z0-9_\-] of _ID_RE and _sanitize
IsIdChar(c) == IsAsciiLetter(c) \/ IsDigit(c) \/ c \in {"_", "-"}

LowerChar(c) == CASE c = "A" -> "a" [] c = "B" -> "b" [] OTHER -> c

Lower(s) == [i \in 1..Len(s) |-> LowerChar(s[i])]

RECURSIVE StripL(_)
StripL(s) == IF s # <<>> /\ Head(s) = " " THEN StripL(Tail(s)) ELSE s

RECURSIVE StripR(_)
StripR(s) == IF s # <<>> /\ s[Len(s)] = " " THEN StripR(SubSeq(s, 1, Len(s) - 1)) ELSE s

Strip(s) == StripR(StripL(s))

Replace(s, a, b) == [i \in 1..Len(s) |-> IF s[i] = a THEN b ELSE s[i]]

StartsWith(s, p) == Len(p) <= Len(s) /\ SubSeq(s, 1, Len(p)) = p

EndsWith(s, p) == Len(p) <= Len(s) /\ SubSeq(s, Len(s) - Len(p) + 1, Len(s)) = p

\* index of the last occurrence of c in s, 0 when absent
LastIndexOf(s, c) ==
    LET I == {i \in 1..Len(s) : s[i] = c}
    IN IF I = {} THEN 0 ELSE CHOOSE i \in I : \A j \in I : j <= i

\* str(n) for n >= 0
RECURSIVE IntToStr(_)
IntToStr(n) ==
    IF n < 10 THEN <<Digits[n + 1]>>
    ELSE IntToStr(n \div 10) \o <<Digits[(n % 10) + 1]>>

DigitVal(c) == (CHOOSE i \in 1..10 : Digits[i] = c) - 1

\* int(s) for a non-empty string of digits
RECURSIVE StrToInt(_)
StrToInt(s) ==
    IF Len(s) = 1 THEN DigitVal(s[1])
    ELSE 10 * StrToInt(SubSeq(s, 1, Len(s) - 1)) + DigitVal(s[Len(s)])

\* the elements of a finite set of integers in ascending order (sorted(...))
RECURSIVE Sorted(_)
Sorted(S) ==
    IF S = {} THEN <<>>
    ELSE LET m == CHOOSE x \in S : \A y \in S : x <= y
         IN <<m>> \o Sorted(S \ {m})

Range(s) == {s[i] : i \in 1..Len(s)}

\* os.path.basename
Basename(p) == SubSeq(p, LastIndexOf(p, "/") + 1, Len(p))

\* os.path.splitext(name)[0]: the name up to its last dot; a leading dot
\* does not start an extension
Stem(name) ==
    LET k == LastIndexOf(name, ".")
    IN IF k <= 1 THEN name ELSE SubSeq(name, 1, k - 1)

DotJson == <<".", "j", "s", "o", "n">>
UnderV == <<"_", "v">>
DotPdf == <<".", "p", "d", "f">>

\* ------------------------------------------------- api_app.py name helpers

\* _safe_filename
_safe_filename(name) ==
    LET n0 == IF name = <<>> THEN <<"f", "i", "l", "e">> \o DotPdf ELSE name
        n1 == Basename(Replace(Strip(n0), "\\", "/"))
        keep(c) == IsAlnum(c) \/ c \in {"-", "_", ".", "(", ")", " "}
        cleaned == Strip(SelectSeq(n1, keep))
    IN IF cleaned = <<>> THEN <<"f", "i", "l", "e">> \o DotPdf ELSE cleaned

\* _safe_client_id
_safe_client_id(s) ==
    LET s1 == Replace(Lower(Strip(s)), " ", "_")
        keep(c) == IsAlnum(c) \/ c \in {"_", "-"}
        out == SelectSeq(s1, keep)
    IN IF out = <<>> THEN <<"t", "e", "m", "p", "l", "a", "t", "e">> ELSE out

\* _norm_key_from_path
_norm_key_from_path(p) == Lower(Strip(Stem(Basename(p))))

\* ------------------------------------------ template_utils.TemplateManager

\* TemplateManager._sanitize
_sanitize(value) == SelectSeq(value, IsIdChar)

\* length of the trailing run of digits of s
RECURSIVE TrailingDigits(_)
TrailingDigits(s) ==
    IF s # <<>> /\ IsDigit(s[Len(s)])
    THEN 1 + TrailingDigits(SubSeq(s, 1, Len(s) - 1))
    ELSE 0

\* TemplateManager.parse_template_id: _ID_RE = ^(client [A-Za-z0-9_\-]+)_v(ver \d+)$
\* versioned = FALSE stands for the result (template_id, None)
parse_template_id(tid) ==
    LET n == Len(tid)
        k == TrailingDigits(tid)
        c == SubSeq(tid, 1, n - k - 2)
    IN IF /\ k >= 1
          /\ n - k - 2 >= 1
          /\ SubSeq(tid, n - k - 1, n - k) = UnderV
          /\ \A i \in 1..Len(c) : IsIdChar(c[i])
       THEN [client |-> c, ver |-> StrToInt(SubSeq(tid, n - k + 1, n)), versioned |-> TRUE]
       ELSE [client |-> tid, ver |-> 0, versioned |-> FALSE]

\* os.path.join below store_dir: an empty component adds no directory level
JoinPath(components) == SelectSeq(components, LAMBDA c : c # <<>>)

\* TemplateManager._client_dir, as the path components below store_dir
_client_dir(dev, client) == JoinPath(<<dev, _sanitize(client)>>)

\* TemplateManager._resolve_profile_path, as the path components below store_dir
_resolve_profile_path(dev, tid) ==
    LET p == parse_template_id(tid)
    IN IF ~p.versioned THEN JoinPath(<<dev, tid \o DotJson>>)
       ELSE _client_dir(dev, p.client) \o <<tid \o DotJson>>

\* the names os.listdir finds in TemplateManager._client_dir(client): the
\* files of the directory and its subdirectories
ListClientDir(files, dev, client) ==
    LET cdir == _client_dir(dev, client)
    IN {q[Len(cdir) + 1] :
          q \in {f \in DOMAIN files : Len(f) > Len(cdir) /\ SubSeq(f, 1, Len(cdir)) = cdir}}

\* TemplateManager.list_versions
list_versions(files, dev, client) ==
    LET names == ListClientDir(files, dev, client)
        ok(fn) == /\ EndsWith(fn, DotJson)
                  /\ StartsWith(fn, client \o UnderV)
                  /\ parse_template_id(SubSeq(fn, 1, Len(fn) - 5)).versioned
    IN Sorted({parse_template_id(SubSeq(fn, 1, Len(fn) - 5)).ver : fn \in {f \in names : ok(f)}})

\* a faulty latest_version_number that reads the first listed version
latest_version_first(files, dev, client) ==
    LET vers == list_versions(files, dev, client)
    IN IF vers # <<>> THEN vers[1] ELSE 0

\* TemplateManager.latest_version_number
latest_version_number(files, dev, client) ==
    LET vers == list_versions(files, dev, client)
    IN IF vers # <<>> THEN vers[Len(vers)] ELSE 0

\* TemplateManager.latest_version_id
latest_version_id(files, dev, client) ==
    LET n == latest_version_number(files, dev, client)
    IN IF n > 0 THEN client \o UnderV \o IntToStr(n) ELSE NoId

\* TemplateManager.next_version_id
next_version_id(files, dev, client) ==
    client \o UnderV \o IntToStr(latest_version_number(files, dev, client) + 1)

\* a save that refuses to replace an existing file (exclusive create)
_save_profile_exclusive(files, dev, tid, profile) ==
    LET path == _resolve_profile_path(dev, tid)
    IN IF path \in DOMAIN files THEN files
       ELSE [q \in DOMAIN files \cup {path} |-> IF q = path THEN profile ELSE files[q]]

\* TemplateManager._save_profile_local: open(path, "w") creates or replaces
_save_profile_local(files, dev, tid, profile) ==
    LET path == _resolve_profile_path(dev, tid)
    IN [q \in DOMAIN files \cup {path} |-> IF q = path THEN profile ELSE files[q]]

\* TemplateManager._sb_key_for: the key has no device in it; found = FALSE
\* stands for None (no mirror)
_sb_key_for(store, tid) ==
    IF ~store.configured THEN [found |-> FALSE, key |-> <<>>]
    ELSE IF ~parse_template_id(tid).versioned THEN [found |-> TRUE, key |-> <<tid \o DotJson>>]
    ELSE [found |-> TRUE, key |-> <<parse_template_id(tid).client, tid \o DotJson>>]

\* TemplateManager._save_profile_remote: upload with upsert
_save_profile_remote(store, tid, profile) ==
    IF ~_sb_key_for(store, tid).found THEN store
    ELSE [store EXCEPT !.objects =
            [q \in DOMAIN store.objects \cup {_sb_key_for(store, tid).key} |->
                IF q = _sb_key_for(store, tid).key THEN profile ELSE store.objects[q]]]

\* TemplateManager._load_profile_remote; found = FALSE stands for None
_load_profile_remote(store, tid) ==
    IF _sb_key_for(store, tid).found /\ _sb_key_for(store, tid).key \in DOMAIN store.objects
    THEN [found |-> TRUE, profile |-> store.objects[_sb_key_for(store, tid).key]]
    ELSE [found |-> FALSE, profile |-> [writer |-> 0]]

\* TemplateManager.load_profile: the mirror first, then the resolved path,
\* then the legacy flat path <store_dir>/<template_id>.json; found = FALSE
\* stands for FileNotFoundError
load_profile(files, store, dev, tid) ==
    LET pv == _resolve_profile_path(dev, tid)
        pl == <<tid \o DotJson>>
    IN IF _load_profile_remote(store, tid).found THEN _load_profile_remote(store, tid)
       ELSE IF pv \in DOMAIN files THEN [found |-> TRUE, profile |-> files[pv]]
       ELSE IF pl \in DOMAIN files THEN [found |-> TRUE, profile |-> files[pl]]
       ELSE [found |-> FALSE, profile |-> [writer |-> 0]]

\* TemplateManager.__init__: an empty or missing device_id raises ValueError
TemplateManagerInit(device_id) ==
    IF device_id = NoId THEN [raised |-> TRUE, device_id |-> NoId]
    ELSE [raised |-> FALSE, device_id |-> _sanitize(device_id)]

\* ------------------------------------------------------ api_app.py PassLog

EmptyMap == [k \in {} |-> {}]

MapGet(m, k) == IF k \in DOMAIN m THEN m[k] ELSE {}

MapSet(m, k, v) == [q \in DOMAIN m \cup {k} |-> IF q = k THEN v ELSE m[q]]

\* _passlog_path_for: the device folder and the client of <client>_passlog.json
_passlog_path_for(device_id, client) ==
    LET keep(c) == IsAlnum(c) \/ c \in {"_", "-"}
    IN <<SelectSeq(device_id, keep), client>>

\* _load_passlog: a missing or unparseable file loads as the empty dict
_load_passlog(pfiles, device_id, client) ==
    LET path == _passlog_path_for(device_id, client)
    IN IF path \notin DOMAIN pfiles THEN EmptyMap
       ELSE IF ~pfiles[path].ok THEN EmptyMap
       ELSE pfiles[path].data

\* what the retried open(path, "w") + json.dump can leave behind
SaveOutcomes == {"written", "truncated", "refused"}

\* _save_passlog: every failure is swallowed; a dump that fails after the
\* open has truncated the file leaves text that json.load rejects
_save_passlog(pfiles, device_id, client, data, outcome) ==
    LET path == _passlog_path_for(device_id, client)
        put(v) == [q \in DOMAIN pfiles \cup {path} |-> IF q = path THEN v ELSE pfiles[q]]
    IN CASE outcome = "written" -> put([ok |-> TRUE, data |-> data])
         [] outcome = "truncated" -> put([ok |-> FALSE, data |-> EmptyMap])
         [] OTHER -> pfiles

\* sanitize lines 309-313: failing pages per normalized name, later items win
RECURSIVE FailingByBase(_, _)
FailingByBase(low_conf, acc) ==
    IF low_conf = <<>> THEN acc
    ELSE FailingByBase(Tail(low_conf),
            MapSet(acc, _norm_key_from_path(Head(low_conf).pdf), DOMAIN Head(low_conf).low_rects))

\* sanitize lines 316-337: record the newly passed pages of every input;
\* pages = 0 stands for a page count that could not be read (n_pages = None)
RECURSIVE UpdatePasslog(_, _, _)
UpdatePasslog(paths, passlog, failing_by_base) ==
    IF paths = <<>> THEN passlog
    ELSE LET p == Head(paths)
             base_key == _norm_key_from_path(p.path)
             already == MapGet(passlog, base_key)
             failing == MapGet(failing_by_base, base_key)
             newly_passed == IF p.pages > 0 THEN (0..(p.pages - 1)) \ failing ELSE {}
         IN UpdatePasslog(Tail(paths),
                IF newly_passed # {} THEN MapSet(passlog, base_key, already \cup newly_passed)
                ELSE passlog,
                failing_by_base)

\* sanitize lines 340-355: drop the pages already in the passlog
RECURSIVE FilterLowConf(_, _)
FilterLowConf(low_conf, passlog) ==
    IF low_conf = <<>> THEN <<>>
    ELSE LET item == Head(low_conf)
             already == MapGet(passlog, _norm_key_from_path(item.pdf))
             kept == [k \in (DOMAIN item.low_rects) \ already |-> item.low_rects[k]]
         IN (IF DOMAIN kept # {} THEN <<[pdf |-> item.pdf, low_rects |-> kept]>> ELSE <<>>)
              \o FilterLowConf(Tail(low_conf), passlog)

\* sanitize lines 306-359 (the same code is sanitize_existing lines 509-562)
PasslogStep(pfiles, device_id, client, paths, low_conf, outcome) ==
    LET passlog == _load_passlog(pfiles, device_id, client)
        updated == UpdatePasslog(paths, passlog, FailingByBase(low_conf, EmptyMap))
    IN [low_conf |-> FilterLowConf(low_conf, updated),
        passlog |-> updated,
        pfiles |-> _save_passlog(pfiles, device_id, client, updated, outcome)]

\* --------------------------------------------------------------- requests

\* MAX_CONCURRENT_JOBS, the default of the environment variable
MAX_CONCURRENT_JOBS == 3

\* requests of one run of the gate specification
NumReqs == 4

\* requests of one run of the store specification
StoreReqs == 4

\* largest page count of an uploaded PDF
MaxPages == 2

VARIABLES
    pc,         \* request -> "idle" | "wait" | "run" | "done"
    req,        \* request -> what the handler holds across its suspension points
    resp,       \* the response returned last, and the request it answers
    sem,        \* SEM._value
    waiters,    \* SEM._waiters, first in first out
    nextReq,    \* number of requests received so far
    tplFiles,   \* template store: path below store_dir -> profile
    passFiles,  \* PassLog files: path -> [ok, data]
    everPassed, \* per PassLog file and name: every page a call has stored
    savedIds,   \* <<device, template_id>> of every profile save that succeeded
    batch,      \* a direct call of process_batch: its arguments, position and results
    call,       \* a direct call of a helper function: its arguments and its result
    sbStore,    \* the Supabase mirror: whether it is configured, and its objects by key
    staticDir   \* STATIC_DIR: file name -> the job that wrote the file last

vars == <<pc, req, resp, sem, waiters, nextReq, tplFiles, passFiles, everPassed, savedIds, batch, call, sbStore, staticDir>>

Reqs == 1..NumReqs

NoReq == [kind |-> "none", device_id |-> NoId, client |-> NoId, paths |-> <<>>, template_id |-> NoId]

\* status 500 stands for the unhandled exception that ends a handler
Response(r, status, tid, low_conf) == [req |-> r, status |-> status, template_id |-> tid, low_conf |-> low_conf]

\* no archive was made
NoPackage == [zip |-> <<>>, entries |-> [n \in {} |-> <<>>]]

\* a response together with the request input it answers (input "none": no
\* zone, no manual name, no replacement) and the archive it delivers
Answer(r, status, tid, low_conf, input, pkg) ==
    [req |-> r, status |-> status, template_id |-> tid, low_conf |-> low_conf,
     input |-> input, zip |-> pkg.zip, archive |-> pkg.entries]

\* a response of a request that created a Job Workspace: cleanup is the number
\* of background_tasks.add_task(_cleanup, workdir) calls made for it, returned
\* tells a response returned by the handler from an exception that left it
Job(response, cleanup, returned) ==
    response @@ [workspace |-> TRUE, cleanup |-> cleanup, returned |-> returned]

\* the job's uploads folder, then the sanitized file name (sanitize lines 229-235)
UploadPath(filename) == <<"u", "/">> \o _safe_filename(filename)

SavePaths(files) == [i \in 1..Len(files) |-> [path |-> UploadPath(files[i].name), pages |-> files[i].pages]]

\* no call of process_batch is under way
NoBatch == [phase |-> "idle"]

\* no helper function has been called
NoCall == [fn |-> "none"]

\* the mirror as the default environment leaves it: _sb is None
NoMirror == [configured |-> FALSE, objects |-> [q \in {} |-> [writer |-> 0]]]

\* STATIC_DIR after os.makedirs
EmptyDir == [q \in {} |-> 0]

Init ==
    /\ batch = NoBatch
    /\ call = NoCall
    /\ sbStore = NoMirror
    /\ staticDir = EmptyDir
    /\ pc = [r \in Reqs |-> "idle"]
    /\ req = [r \in Reqs |-> NoReq]
    /\ resp = Response(0, 0, NoId, <<>>)
    /\ sem = MAX_CONCURRENT_JOBS
    /\ waiters = <<>>
    /\ nextReq = 0
    /\ tplFiles = [q \in {} |-> [writer |-> 0]]
    /\ passFiles = [q \in {} |-> [ok |-> TRUE, data |-> EmptyMap]]
    /\ everPassed = [q \in {} |-> EmptyMap]
    /\ savedIds = {}

\* a gate that never reports itself locked
SemNeverLocked == FALSE

\* asyncio.Semaphore.locked()
SemLocked == sem = 0 \/ waiters # <<>>

\* "async with SEM" on entry: take a permit at once, or queue behind the waiters
EnterSem(r, held) ==
    /\ req' = [req EXCEPT ![r] = held]
    /\ IF SemLocked
       THEN /\ pc' = [pc EXCEPT ![r] = "wait"]
            /\ waiters' = Append(waiters, r)
            /\ UNCHANGED sem
       ELSE /\ pc' = [pc EXCEPT ![r] = "run"]
            /\ sem' = sem - 1
            /\ UNCHANGED waiters

\* the handler ends before it reaches the gate
EndEarly(r, status, tid) ==
    /\ pc' = [pc EXCEPT ![r] = "done"]
    /\ resp' = Response(r, status, tid, <<>>)
    /\ UNCHANGED <<req, sem, waiters>>

\* POST /api/sanitize up to the gate, manual-only branch (lines 222-260):
\* no zones and at least one manual name or replacement
SanitizeManual(r, device_id, client_name, files) ==
    /\ pc[r] = "idle" /\ r = nextReq + 1
    /\ nextReq' = r
    /\ EnterSem(r, [kind |-> "manual", device_id |-> device_id,
                    client |-> _safe_client_id(client_name),
                    paths |-> SavePaths(files), template_id |-> NoId])
    /\ UNCHANGED <<resp, tplFiles, passFiles, everPassed, savedIds, batch, call, sbStore, staticDir>>

\* POST /api/sanitize up to the gate, template branch (lines 222-289):
\* zones = "none":    no zone, no manual name, no replacement
\* zones = "invalid": zones from which save_profile_multi extracts no content
\* zones = "valid":   at least one zone yields reference content
SanitizeTemplate(r, device_id, client_name, files, zones) ==
    /\ pc[r] = "idle" /\ r = nextReq + 1
    /\ nextReq' = r
    /\ LET client == _safe_client_id(client_name)
           tm == TemplateManagerInit(device_id)
           template_id == next_version_id(tplFiles, tm.device_id, client)
       IN IF tm.raised \/ zones # "valid"
          THEN /\ pc' = [pc EXCEPT ![r] = "done"]
               /\ resp' = Job(Answer(r, 500, NoId, <<>>, zones, NoPackage), 0, FALSE)
               /\ UNCHANGED <<req, sem, waiters, tplFiles, savedIds>>
          ELSE /\ tplFiles' = _save_profile_local(tplFiles, tm.device_id, template_id, [writer |-> r])
               /\ savedIds' = savedIds \cup {<<tm.device_id, template_id>>}
               /\ EnterSem(r, [kind |-> "template", device_id |-> device_id, client |-> client,
                               paths |-> SavePaths(files), template_id |-> template_id])
               /\ UNCHANGED resp
    /\ UNCHANGED <<passFiles, everPassed, batch, call, sbStore, staticDir>>

\* POST /api/sanitize-existing up to the gate (lines 456-493)
SanitizeExisting(r, device_id, client_name, files) ==
    /\ pc[r] = "idle" /\ r = nextReq + 1
    /\ nextReq' = r
    /\ LET client == _safe_client_id(client_name)
           tm == TemplateManagerInit(device_id)
           template_id == latest_version_id(tplFiles, tm.device_id, client)
       IN IF tm.raised THEN EndEarly(r, 500, NoId)
          ELSE IF template_id = NoId THEN EndEarly(r, 404, NoId)
          ELSE IF ~load_profile(tplFiles, sbStore, tm.device_id, template_id).found THEN EndEarly(r, 500, NoId)
          ELSE /\ EnterSem(r, [kind |-> "existing", device_id |-> device_id, client |-> client,
                               paths |-> SavePaths(files), template_id |-> template_id])
               /\ UNCHANGED resp
    /\ UNCHANGED <<tplFiles, passFiles, everPassed, savedIds, batch, call, sbStore, staticDir>>

\* POST /api/generate-sensitive-terms up to the gate (lines 648-683): no
\* file at all is answered before a workspace exists, no PDF among the files
\* after the cleanup of the workspace is scheduled
GenerateTerms(r, files) ==
    /\ pc[r] = "idle" /\ r = nextReq + 1
    /\ nextReq' = r
    /\ LET pdfs == SelectSeq(SavePaths(files), LAMBDA p : EndsWith(Lower(Basename(p.path)), DotPdf))
       IN IF files = <<>> THEN EndEarly(r, 400, NoId)
          ELSE IF pdfs = <<>>
          THEN /\ pc' = [pc EXCEPT ![r] = "done"]
               /\ resp' = Job(Response(r, 400, NoId, <<>>), 1, TRUE)
               /\ UNCHANGED <<req, sem, waiters>>
          ELSE /\ EnterSem(r, [kind |-> "terms", device_id |-> NoId, client |-> NoId,
                               paths |-> pdfs, template_id |-> NoId])
               /\ UNCHANGED resp
    /\ UNCHANGED <<tplFiles, passFiles, everPassed, savedIds, batch, call, sbStore, staticDir>>

\* the first waiter of SEM is woken and takes the free permit
Grant(r) ==
    /\ pc[r] = "wait"
    /\ waiters # <<>> /\ Head(waiters) = r
    /\ sem > 0
    /\ sem' = sem - 1
    /\ waiters' = Tail(waiters)
    /\ pc' = [pc EXCEPT ![r] = "run"]
    /\ UNCHANGED <<req, resp, nextReq, tplFiles, passFiles, everPassed, savedIds, batch, call, sbStore, staticDir>>

\* process_batch lines 109-111 as the handlers call it: no device_id is passed,
\* so the TemplateManager of the pipeline is built with device_id = None
ProcessBatchEntry(device_id) == TemplateManagerInit(device_id)

\* the suffix of every sanitized file
SanitizedSuffix == <<"_", "s", "a", "n", "i", "t", "i", "z", "e", "d">> \o DotPdf

\* f"{base}_sanitized.pdf" of an input path
SanitizedName(path) == Stem(Basename(path)) \o SanitizedSuffix

\* the last input that is written under the name n
LastSource(paths, n) ==
    paths[CHOOSE i \in 1..Len(paths) :
            /\ SanitizedName(paths[i].path) = n
            /\ \A j \in 1..Len(paths) : SanitizedName(paths[j].path) = n => j <= i].path

\* an out_dir without files
EmptyOut == [n \in {} |-> [kind |-> "none", src |-> <<>>]]

\* process_text_only lines 697-730: one file per input, redacted or saved through
TextOnlyOutputs(paths) ==
    [n \in {SanitizedName(paths[i].path) : i \in 1..Len(paths)} |->
        [kind |-> "text_only", src |-> LastSource(paths, n)]]

AllReadable(paths) == \A i \in 1..Len(paths) : paths[i].pages > 0

\* what the worker execution of request state q does: raised, or the
\* low-confidence report it returns
\*   manual:   process_text_only opens every PDF and returns the empty report
\*   template, existing: process_batch(..., device_id omitted)
\*   terms:    extract_raw_text opens every PDF, then the AI call (llm_ok)
RunWorker(q, llm_ok) ==
    CASE q.kind = "manual" -> [raised |-> ~AllReadable(q.paths), low_conf |-> <<>>,
                               out |-> TextOnlyOutputs(q.paths)]
      [] q.kind = "terms" -> [raised |-> ~AllReadable(q.paths) \/ ~llm_ok, low_conf |-> <<>>,
                              out |-> EmptyOut]
      [] OTHER -> [raised |-> ProcessBatchEntry(NoId).raised, low_conf |-> <<>>, out |-> EmptyOut]

\* sanitize lines 365-375: the files of out_dir named *_sanitized.pdf; when
\* there is none, a copy of every upload under its sanitized name
CollectSanitize(out, paths) ==
    LET found == {n \in DOMAIN out : EndsWith(n, SanitizedSuffix)}
    IN IF found # {} THEN [n \in found |-> out[n]]
       ELSE [n \in {SanitizedName(paths[i].path) : i \in 1..Len(paths)} |->
                [kind |-> "copy", src |-> LastSource(paths, n)]]

\* sanitize_existing line 566: the files of out_dir named *_sanitized.pdf
CollectExisting(out, paths) ==
    [n \in {m \in DOMAIN out : EndsWith(m, SanitizedSuffix)} |-> out[n]]

\* f"{client}_{job_id}_sanitized.zip"; the job id is a fresh uuid4, here the
\* number of the request
ZipFilename(client, job_id) ==
    client \o <<"_">> \o IntToStr(job_id) \o <<"_", "s", "a", "n", "i", "t", "i", "z", "e", "d", ".", "z", "i", "p">>

\* sanitize lines 377-381, sanitize_existing lines 567-572: the archive of the job
Package(client, job_id, sanitized) == [zip |-> ZipFilename(client, job_id), entries |-> sanitized]

\* sanitize lines 384-399, sanitize_existing lines 573-585: the archive and
\* every sanitized PDF are copied into STATIC_DIR under their base names; a
\* failure of the copy of the archive is swallowed (zip_copied = FALSE)
StaticWrite(dir, pkg, job_id, zip_copied) ==
    LET written == (IF zip_copied THEN {pkg.zip} ELSE {}) \cup DOMAIN pkg.entries
    IN [n \in DOMAIN dir \cup written |-> IF n \in written THEN job_id ELSE dir[n]]

\* sanitize lines 403-440: the cleanup is scheduled in the two branches that
\* find the archive in STATIC_DIR, not in the fallback after them;
\* sanitize_existing lines 594-599: scheduled before the branches
CleanupsScheduled(kind, zip_copied) ==
    IF kind = "existing" \/ zip_copied THEN 1 ELSE 0

\* lines 361-401 of sanitize, 563-585 of sanitize_existing
PackageOf(kind, client, job_id, out, paths) ==
    Package(client, job_id,
            IF kind = "existing" THEN CollectExisting(out, paths) ELSE CollectSanitize(out, paths))

\* an exit that gives the permit back only when the block returns normally
SemExitOnReturnOnly(raised) == IF raised THEN 0 ELSE 1

\* permits "async with SEM" gives back when the block is left, by return or by raise
SemExit(raised) == 1

\* union of what was stored so far with the file just written
Remember(ever, pfiles, path) ==
    IF path \in DOMAIN pfiles /\ pfiles[path].ok
    THEN LET old == IF path \in DOMAIN ever THEN ever[path] ELSE EmptyMap
             new == pfiles[path].data
             merged == [k \in DOMAIN old \cup DOMAIN new |-> MapGet(old, k) \cup MapGet(new, k)]
         IN [q \in DOMAIN ever \cup {path} |-> IF q = path THEN merged ELSE ever[q]]
    ELSE ever

\* the worker execution of r ends; the handler leaves "async with SEM" and runs
\* to its response without another suspension point
Finish(r, outcomes, copies) ==
    /\ pc[r] = "run"
    /\ \E llm_ok \in (IF req[r].kind = "terms" THEN BOOLEAN ELSE {TRUE}),
          outcome \in (IF req[r].kind = "terms" THEN {"written"} ELSE outcomes),
          zip_copied \in (IF req[r].kind = "manual" THEN copies ELSE {TRUE}) :
        LET q == req[r]
            w == RunWorker(q, llm_ok)
            step == PasslogStep(passFiles, q.device_id, q.client, q.paths, w.low_conf, outcome)
            pkg == PackageOf(q.kind, q.client, r, w.out, q.paths)
        IN /\ sem' = sem + SemExit(w.raised)
           /\ req' = [req EXCEPT ![r] = NoReq]
           /\ pc' = [pc EXCEPT ![r] = "done"]
           /\ IF q.kind = "terms"
              THEN /\ resp' = Job(Response(r, IF w.raised THEN 500 ELSE 200, NoId, <<>>), 1, TRUE)
                   /\ UNCHANGED <<passFiles, everPassed, staticDir>>
              ELSE IF w.raised
              THEN /\ resp' = Job(Response(r, 500, NoId, <<>>), 0, FALSE)
                   /\ UNCHANGED <<passFiles, everPassed, staticDir>>
              ELSE /\ passFiles' = step.pfiles
                   /\ everPassed' = Remember(everPassed, step.pfiles, _passlog_path_for(q.device_id, q.client))
                   /\ staticDir' = StaticWrite(staticDir, pkg, r, zip_copied)
                   /\ resp' = Job(Answer(r, 200,
                                         IF q.kind = "manual"
                                         THEN <<"m", "a", "n", "u", "a", "l", "_", "o", "n", "l", "y">>
                                         ELSE q.template_id,
                                         step.low_conf, q.kind, pkg),
                                  CleanupsScheduled(q.kind, zip_copied), TRUE)
    /\ UNCHANGED <<waiters, nextReq, tplFiles, savedIds, batch, call, sbStore>>

\* ---------------------------------------------------------------- inputs

Pdf(name, pages) == [name |-> name, pages |-> pages]

DeviceD == <<"d">>

\* uploads of the gate specification: one readable PDF, one unreadable PDF
GateFile == <<Pdf(<<"a">> \o DotPdf, 1)>>

GateFiles == {GateFile, <<Pdf(<<"a">> \o DotPdf, 0)>>}

GateClients == {<<"A">>}

\* the semaphore gate under every kind of request
Next ==
    \/ \E r \in 1..NumReqs, c \in GateClients, f \in GateFiles : SanitizeManual(r, DeviceD, c, f)
    \/ \E r \in 1..NumReqs, c \in GateClients, z \in {"none", "invalid", "valid"} :
            SanitizeTemplate(r, DeviceD, c, GateFile, z)
    \/ \E r \in 1..NumReqs, c \in GateClients : SanitizeExisting(r, DeviceD, c, GateFile)
    \/ \E r \in 1..NumReqs : GenerateTerms(r, GateFile)
    \/ \E r \in 1..NumReqs : Grant(r)
    \/ \E r \in 1..NumReqs : Finish(r, {"written"}, {TRUE})

Spec == Init /\ [][Next]_vars

\* the event loop runs a woken waiter, and every worker execution ends.
\* Finish(r, _) is enabled exactly while pc[r] = "run" and leaves that state
\* for good, so weak fairness of Finish(r, _) is []<>(pc[r] # "run")
SpecFair ==
    /\ Spec
    /\ \A r \in 1..NumReqs : WF_vars(Grant(r)) /\ []<>(pc[r] # "run")

\* uploads of the store specification: a.pdf with one page, or with MaxPages pages
StoreFiles == {<<Pdf(<<"a">> \o DotPdf, n)>> : n \in {1, MaxPages}}

\* client_name values: an ASCII name, and a name with a letter outside ASCII
StoreClients == {<<"A">>, <<"é">>}

\* the template store and the PassLog under a few requests
NextStore ==
    \/ \E r \in 1..StoreReqs, c \in GateClients, f \in StoreFiles : SanitizeManual(r, DeviceD, c, f)
    \/ \E r \in 1..StoreReqs, c \in StoreClients, z \in {"none", "valid"} :
            SanitizeTemplate(r, DeviceD, c, GateFile, z)
    \/ \E r \in 1..StoreReqs, c \in StoreClients : SanitizeExisting(r, DeviceD, c, GateFile)
    \/ \E r \in 1..StoreReqs : Grant(r)
    \/ \E r \in 1..StoreReqs : Finish(r, SaveOutcomes, {TRUE})

SpecStore == Init /\ [][NextStore]_vars

\* requests of one run of the job specification
JobReqs == 2

\* uploads of the job specification: a readable PDF, an unreadable PDF, a
\* file that is no PDF, no file
JobFiles == GateFiles \cup {<<Pdf(<<"a">>, 1)>>, <<>>}

\* the handlers from the upload to the response, the copy of the archive
\* into STATIC_DIR succeeding or failing
NextJobs ==
    \/ \E r \in 1..JobReqs, c \in GateClients, f \in GateFiles : SanitizeManual(r, DeviceD, c, f)
    \/ \E r \in 1..JobReqs, c \in GateClients, z \in {"none", "valid"} :
            SanitizeTemplate(r, DeviceD, c, GateFile, z)
    \/ \E r \in 1..JobReqs, c \in GateClients : SanitizeExisting(r, DeviceD, c, GateFile)
    \/ \E r \in 1..JobReqs, f \in JobFiles : GenerateTerms(r, f)
    \/ \E r \in 1..JobReqs : Finish(r, {"written"}, BOOLEAN)

SpecJobs == Init /\ [][NextJobs]_vars

\* ------------------------------------------------------------ pipeline.py

\* a zone without paper / orientation tag (the key is absent from the dict)
NoTag == "none"

Min2(a, b) == IF a <= b THEN a ELSE b

Max2(a, b) == IF a >= b THEN a ELSE b

\* template_utils._normalized_bbox
_normalized_bbox(b) == <<Min2(b[1], b[3]), Min2(b[2], b[4]), Max2(b[1], b[3]), Max2(b[2], b[4])>>

\* template_utils._bbox_inside_page; coordinates are integers here, and the
\* tolerance 0.1 admits no integer outside the page
_bbox_inside_page(page, bbox) ==
    LET b == _normalized_bbox(bbox)
    IN IF (b[3] - b[1]) <= 0 \/ (b[4] - b[2]) <= 0 THEN FALSE
       ELSE IF b[1] < 0 \/ b[2] < 0 \/ b[3] > page.w \/ b[4] > page.h THEN FALSE
       ELSE TRUE

\* the table applied to the angle as given, the corners left as they come
transform_bbox_as_given(bbox, pw, ph, pr) ==
    CASE pr = 90 -> <<bbox[2], pw - bbox[3], bbox[4], pw - bbox[1]>>
      [] pr = 180 -> <<pw - bbox[3], ph - bbox[4], pw - bbox[1], ph - bbox[2]>>
      [] pr = 270 -> <<ph - bbox[4], bbox[1], ph - bbox[2], bbox[3]>>
      [] OTHER -> bbox

\* template_utils.transform_bbox_for_rotation
transform_bbox_for_rotation(bbox, pw, ph, pr) ==
    LET x1 == bbox[1]
        y1 == bbox[2]
        x2 == bbox[3]
        y2 == bbox[4]
        r == pr % 360
        n == CASE r = 0 -> <<x1, y1, x2, y2>>
               [] r = 90 -> <<y1, pw - x2, y2, pw - x1>>
               [] r = 180 -> <<pw - x2, ph - y2, pw - x1, ph - y1>>
               [] r = 270 -> <<ph - y2, x1, ph - y1, x2>>
               [] OTHER -> <<x1, y1, x2, y2>>
    IN <<Min2(n[1], n[3]), Min2(n[2], n[4]), Max2(n[1], n[3]), Max2(n[2], n[4])>>

\* the elements of a sequence in the order of their first occurrence (the key
\* order of a dict filled in that order)
RECURSIVE Distinct(_)
Distinct(s) ==
    IF s = <<>> THEN <<>>
    ELSE LET rest == Distinct(SubSeq(s, 1, Len(s) - 1))
         IN IF s[Len(s)] \in Range(rest) THEN rest ELSE Append(rest, s[Len(s)])

\* the concatenation of a sequence of sequences
RECURSIVE Flatten(_)
Flatten(ss) == IF ss = <<>> THEN <<>> ELSE Head(ss) \o Flatten(Tail(ss))

\* the content of a page region: what get_text and get_pixmap find there
Blank == [text |-> <<>>, image_hash |-> <<>>]

RegionContent(page, bbox) == IF bbox \in DOMAIN page.content THEN page.content[bbox] ELSE Blank

\* paper_sz_ort_utils._classify_pdf_layout: one (paper, orientation) per page
_classify_pdf_layout(pdf) ==
    [i \in 1..Len(pdf.pages) |->
        [paper |-> pdf.pages[i].paper,
         orientation |-> IF pdf.pages[i].w > pdf.pages[i].h THEN "landscape" ELSE "portrait"]]

\* paper_sz_ort_utils._filter_rectangles_for_layout: the rectangles whose tags,
\* where present, match the layout
_filter_rectangles_for_layout(rectangles, paper, orient) ==
    SelectSeq(rectangles, LAMBDA r : /\ (r.paper = NoTag \/ r.paper = paper)
                                     /\ (r.orientation = NoTag \/ r.orientation = orient))

\* scoring_utils.ConfidenceScorer.score_image in percent: one minus the
\* fraction of differing bits
score_image(ref_hash, tgt_hash) ==
    IF Len(ref_hash) # Len(tgt_hash) \/ ref_hash = <<>> THEN 0
    ELSE 100 - ((100 * Cardinality({i \in 1..Len(ref_hash) : ref_hash[i] # tgt_hash[i]})) \div Len(ref_hash))

\* scoring_utils.ConfidenceScorer.score_text in percent, on case- and
\* whitespace-normalized text
score_text(ref_text, tgt_text) ==
    IF Lower(Strip(ref_text)) = Lower(Strip(tgt_text)) THEN 100 ELSE 0

\* process_batch lines 146-159: the active rectangles of every page, each with
\* its template index and its group "src<source_index>|p<page>"
ActiveRectsByPage(rectangles, pdf) ==
    LET page_layouts == _classify_pdf_layout(pdf)
        tagged(i) == [bbox |-> rectangles[i].bbox, tidx |-> i - 1,
                      group_id |-> <<rectangles[i].source_index, rectangles[i].page>>]
    IN [pg \in 1..Len(page_layouts) |->
            LET filtered == _filter_rectangles_for_layout(rectangles, page_layouts[pg].paper,
                                                          page_layouts[pg].orientation)
                idx == SelectSeq([i \in 1..Len(rectangles) |-> i],
                                 LAMBDA i : rectangles[i] \in Range(filtered))
            IN [k \in 1..Len(idx) |-> tagged(idx[k])]]

\* process_batch lines 187-191: the flattened list, pages 0-based
ReplicatedRectangles(active) ==
    Flatten([pg \in 1..Len(active) |->
                [k \in 1..Len(active[pg]) |->
                    [page |-> pg - 1, bbox |-> active[pg][k].bbox, tidx |-> active[pg][k].tidx,
                     group_id |-> active[pg][k].group_id]]])

\* template_utils.extract_zones_content: one result per rectangle that lies
\* inside its page; a rectangle outside is skipped
RECURSIVE extract_zones_content(_, _)
extract_zones_content(pdf, rects) ==
    IF rects = <<>> THEN <<>>
    ELSE LET rect == Head(rects)
             page_count == Len(pdf.pages)
             page_num == IF rect.page < 0 THEN 0
                         ELSE IF rect.page >= page_count THEN page_count - 1
                         ELSE rect.page
             page == pdf.pages[page_num + 1]
             orig_bbox == _normalized_bbox(rect.bbox)
             t_bbox == transform_bbox_for_rotation(orig_bbox, page.w, page.h, page.rotation)
             rest == extract_zones_content(pdf, Tail(rects))
         IN IF ~_bbox_inside_page(page, orig_bbox) THEN rest
            ELSE <<[page |-> page_num, bbox |-> t_bbox,
                    text |-> RegionContent(page, t_bbox).text,
                    image_hash |-> RegionContent(page, orig_bbox).image_hash]>> \o rest

\* process_batch lines 242-258: zip(tgt_contents, replicated_rectangles) pairs
\* by position and stops at the shorter list
RecordScores(ref_contents, tgt_contents, replicated) ==
    [k \in 1..Min2(Len(tgt_contents), Len(replicated)) |->
        LET tgt == tgt_contents[k]
            rect == replicated[k]
            ref == ref_contents[rect.tidx + 1]
            tscore == score_text(ref.text, tgt.text)
            iscore == score_image(ref.image_hash, tgt.image_hash)
        IN [page |-> tgt.page, bbox |-> rect.bbox, tidx |-> rect.tidx,
            tscore |-> tscore, iscore |-> iscore, rscore |-> (tscore + iscore) \div 2,
            group_id |-> rect.group_id]]

\* a gate that asks for more than the threshold
RectPassStrict(rec, threshold) == rec.iscore > threshold

\* process_batch lines 288-290: rect_pass, with THRESH_I = threshold
RectPass(rec, threshold) == rec.iscore >= threshold

\* process_batch lines 277-281 and 286: the records of a page by group, the
\* groups in the order of their first record (dict order)
GroupOrder(recs) ==
    LET gids == Distinct([k \in 1..Len(recs) |-> recs[k].group_id])
    IN Flatten([g \in 1..Len(gids) |-> SelectSeq(recs, LAMBDA rec : rec.group_id = gids[g])])

\* process_batch lines 299-301: some group of the page has no failing record
PageHasPassingGroup(recs, threshold) ==
    \E g \in {recs[k].group_id : k \in 1..Len(recs)} :
        \A k \in 1..Len(recs) : recs[k].group_id = g => RectPass(recs[k], threshold)

\* process_batch lines 304-309: what high_conf_rects gets from a page
HighConfOf(page_passing_rects) ==
    [k \in 1..Len(page_passing_rects) |->
        [page |-> page_passing_rects[k].page, bbox |-> page_passing_rects[k].bbox,
         tidx |-> page_passing_rects[k].tidx]]

\* process_batch lines 312-314: what low_confidence_by_page gets from a page
LowConfOf(page_failing_rects, page_has_passing_group) ==
    IF page_failing_rects # <<>> /\ ~page_has_passing_group
    THEN [k \in 1..Len(page_failing_rects) |-> page_failing_rects[k].bbox]
    ELSE <<>>

\* process_batch lines 275-318 for the records of one page
GatePage(recs, threshold) ==
    [high |-> HighConfOf(SelectSeq(GroupOrder(recs), LAMBDA rec : RectPass(rec, threshold))),
     low |-> LowConfOf(SelectSeq(GroupOrder(recs), LAMBDA rec : ~RectPass(rec, threshold)),
                       PageHasPassingGroup(recs, threshold))]

\* high_conf_rects and low_confidence_by_page from the gates of the pages
CollectGates(pages, gate) ==
    [high |-> Flatten([i \in 1..Len(pages) |-> gate[i].high]),
     low_by_page |-> [pg \in {pages[i] : i \in {j \in 1..Len(pages) : gate[j].low # <<>>}} |->
                        gate[CHOOSE i \in 1..Len(pages) : pages[i] = pg].low]]

\* process_batch lines 261-318 over the pages in the order of their first record
GatePages(records, pages, threshold) ==
    CollectGates(pages,
                 [i \in 1..Len(pages) |->
                    GatePage(SelectSeq(records, LAMBDA rec : rec.page = pages[i]), threshold)])

GateRecords(records, threshold) ==
    GatePages(records, Distinct([k \in 1..Len(records) |-> records[k].page]), threshold)

\* a page range reduced to page 0
NoMatchReportFirstPage(rectangles, page_count) ==
    [i \in {0} |-> [k \in 1..Len(rectangles) |-> rectangles[k].bbox]]

\* process_batch line 168: every template bbox under every page index
NoMatchReport(rectangles, page_count) ==
    [i \in 0..(page_count - 1) |-> [k \in 1..Len(rectangles) |-> rectangles[k].bbox]]

\* process_batch line 125 and 135: "<stem>_sanitized.pdf" below output_dir
SanitizedPath(pdf_path) ==
    Stem(Basename(pdf_path)) \o <<"_", "s", "a", "n", "i", "t", "i", "z", "e", "d">> \o DotPdf

\* " ".join(s.split()): runs of blanks become one blank, none at the ends
RECURSIVE CollapseBlanks(_)
CollapseBlanks(s) ==
    IF Len(s) < 2 THEN s
    ELSE IF s[1] = " " /\ s[2] = " " THEN CollapseBlanks(Tail(s))
    ELSE <<s[1]>> \o CollapseBlanks(Tail(s))

\* pipeline._norm_phrase
_norm_phrase(s) == Strip(CollapseBlanks(Strip(s)))

\* code points order the characters of the modelled names
CharOrder == <<" ", "-", "0", "1", "2", "3", "4", "5", "6", "7", "8", "9", "A", "B", "_",
               "a", "b", "c", "d", "e", "f", "j", "l", "m", "n", "o", "p", "s", "t", "v", "é">>

CharCode(c) == CHOOSE i \in 1..Len(CharOrder) : CharOrder[i] = c

\* str.__lt__
RECURSIVE StrLess(_, _)
StrLess(a, b) ==
    IF b = <<>> THEN FALSE
    ELSE IF a = <<>> THEN TRUE
    ELSE IF Head(a) = Head(b) THEN StrLess(Tail(a), Tail(b))
    ELSE CharCode(Head(a)) < CharCode(Head(b))

\* sorted(...) of a finite set of strings
RECURSIVE SortedStrs(_)
SortedStrs(S) ==
    IF S = {} THEN <<>>
    ELSE LET m == CHOOSE x \in S : \A y \in S \ {x} : StrLess(x, y)
         IN <<m>> \o SortedStrs(S \ {m})

\* pipeline._augment_manual_names_from_replacements; text_replacements maps a
\* key to its replacement, NoId standing for a null value
_augment_manual_names_from_replacements(manual_names, text_replacements) ==
    IF DOMAIN text_replacements = {} THEN manual_names
    ELSE LET rep_keys == {k \in DOMAIN text_replacements : text_replacements[k] # NoId}
             merged == {_norm_phrase(x) : x \in Range(manual_names) \cup rep_keys} \ {<<>>}
         IN SortedStrs(merged)

\* process_batch lines 335-336: the manual names as normalized for one PDF
NormalizeManualNames(manual_names, text_replacements) ==
    _augment_manual_names_from_replacements(
        [i \in 1..Len(manual_names) |-> Strip(Lower(manual_names[i]))], text_replacements)

\* replacement_utils.collect_manual_replacements: the rectangle of every
\* occurrence of a manual name, found without regard to case
collect_manual_replacements(pdf, manual_names) ==
    LET found == SelectSeq(manual_names, LAMBDA n : Lower(n) \in DOMAIN pdf.words)
    IN [k \in 1..Len(found) |-> pdf.words[Lower(found[k])]]

\* no sanitized file
NoOut == [kind |-> "none", src |-> <<>>, rects |-> <<>>]

\* process_batch lines 321-330: the accepted rectangles on the live geometry
RotAware(pdf, high_conf_rects) ==
    [k \in 1..Len(high_conf_rects) |->
        [page |-> high_conf_rects[k].page, tidx |-> high_conf_rects[k].tidx,
         bbox |-> transform_bbox_for_rotation(high_conf_rects[k].bbox,
                                              pdf.pages[high_conf_rects[k].page + 1].w,
                                              pdf.pages[high_conf_rects[k].page + 1].h,
                                              pdf.pages[high_conf_rects[k].page + 1].rotation)]]

\* process_batch lines 349-422: the engines invoked on the sanitized path
EnginesInvoked(all_rects, high_conf_rects_rotaware, image_map, secondary) ==
    (IF all_rects # <<>> THEN <<"redact">> ELSE <<>>)
      \o (IF \E k \in 1..Len(high_conf_rects_rotaware) :
                high_conf_rects_rotaware[k].tidx \in DOMAIN image_map
          THEN <<"place">> ELSE <<>>)
      \o (IF ~secondary THEN <<"overlay">> ELSE <<>>)

\* what one turn of the loop leaves behind. ops: the engines invoked, in
\* order; out: the sanitized file written; report: the entries appended to
\* low_conf; manual_names: the list as the next turn finds it
PdfResult(nomatch, replicated, records, high, redacted, ops, out, report, manual_names) ==
    [raised |-> FALSE, nomatch |-> nomatch, replicated |-> replicated, records |-> records,
     high |-> high, redacted |-> redacted, ops |-> ops, out |-> out, report |-> report,
     manual_names |-> manual_names]

\* process_batch lines 349-429 once the rectangles are known
RedactAndReport(path, replicated, records, gated, high_conf_rects_rotaware, manual_rects, image_map, secondary, names) ==
    PdfResult(FALSE, replicated, records, gated.high,
              high_conf_rects_rotaware \o manual_rects,
              EnginesInvoked(high_conf_rects_rotaware \o manual_rects, high_conf_rects_rotaware,
                             image_map, secondary),
              IF high_conf_rects_rotaware \o manual_rects # <<>>
              THEN [kind |-> "redacted", src |-> path, rects |-> high_conf_rects_rotaware \o manual_rects]
              ELSE NoOut,
              IF DOMAIN gated.low_by_page # {}
              THEN <<[pdf |-> path, low_rects |-> gated.low_by_page]>> ELSE <<>>,
              names)

\* the rectangles of the template alone, no manual name looked up
CollectAndRedactTemplateOnly(path, pdf, replicated, records, gated, image_map, secondary, names) ==
    RedactAndReport(path, replicated, records, gated, RotAware(pdf, gated.high), <<>>,
                    image_map, secondary, names)

\* process_batch lines 320-345 once the gate has run
CollectAndRedact(path, pdf, replicated, records, gated, image_map, secondary, names) ==
    RedactAndReport(path, replicated, records, gated, RotAware(pdf, gated.high),
                    IF ~secondary THEN collect_manual_replacements(pdf, names) ELSE <<>>,
                    image_map, secondary, names)

\* process_batch lines 239-318 once the replicated rectangles are known
ScoreAndGate(profile, image_map, threshold, secondary, names, path, pdf, replicated, records) ==
    CollectAndRedact(path, pdf, replicated, records, GateRecords(records, threshold),
                     image_map, secondary, names)

\* process_batch lines 187-258
ReplicateAndScore(profile, image_map, threshold, secondary, names, path, pdf, replicated) ==
    ScoreAndGate(profile, image_map, threshold, secondary, names, path, pdf, replicated,
                 RecordScores(profile.contents, extract_zones_content(pdf, replicated), replicated))

\* process_batch lines 165-183: the PDF is flagged and copied
NoMatchResult(rectangles, path, pdf, manual_names) ==
    PdfResult(TRUE, <<>>, <<>>, <<>>, <<>>, <<"copy">>,
              [kind |-> "copy", src |-> path, rects |-> <<>>],
              <<[pdf |-> path, low_rects |-> NoMatchReport(rectangles, Len(pdf.pages))]>>,
              manual_names)

\* process_batch lines 143-183 once the active rectangles are known
LayoutBranch(profile, image_map, threshold, manual_names, text_replacements, secondary, path, pdf, active) ==
    IF \A pg \in 1..Len(active) : active[pg] = <<>>
    THEN NoMatchResult(profile.rectangles, path, pdf, manual_names)
    ELSE ReplicateAndScore(profile, image_map, threshold, secondary,
                           NormalizeManualNames(manual_names, text_replacements),
                           path, pdf, ReplicatedRectangles(active))

\* process_batch lines 124-429: one PDF of the batch; raised: the exception of
\* a file that cannot be opened leaves process_batch
ProcessPdf(profile, image_map, threshold, manual_names, text_replacements, secondary, path, pdf) ==
    IF ~pdf.readable
    THEN [raised |-> TRUE, manual_names |-> manual_names]
    ELSE LayoutBranch(profile, image_map, threshold, manual_names, text_replacements, secondary,
                      path, pdf, ActiveRectsByPage(profile.rectangles, pdf))

\* nothing processed yet
NoLast == [path |-> <<>>]

\* process_batch lines 109-122: the TemplateManager, the profile, the image map
\* of the profile when the caller passes none, the empty report
BatchStart(device_id, template_id, threshold, manual_names, pdf_paths) ==
    /\ batch.phase = "idle"
    /\ LET tm == TemplateManagerInit(device_id)
           got == load_profile(tplFiles, sbStore, tm.device_id, template_id)
       IN IF tm.raised \/ ~got.found
          THEN batch' = [phase |-> "raised", device_id |-> device_id, template_id |-> template_id]
          ELSE batch' = [phase |-> "run", device_id |-> device_id, template_id |-> template_id,
                         profile |-> got.profile, image_map |-> got.profile.image_map,
                         threshold |-> threshold, manual_names |-> manual_names,
                         text_replacements |-> EmptyMap, secondary |-> FALSE,
                         pdf_paths |-> pdf_paths, done |-> 0, low_conf |-> <<>>,
                         outs |-> [q \in {} |-> NoOut], last |-> NoLast]
    /\ UNCHANGED <<pc, req, resp, sem, waiters, nextReq, tplFiles, passFiles, everPassed, savedIds, call, sbStore, staticDir>>

\* one turn of the loop over pdf_paths; pdf is what the file at the path holds
BatchPdf(pdf) ==
    /\ batch.phase = "run"
    /\ batch.done < Len(batch.pdf_paths)
    /\ LET path == batch.pdf_paths[batch.done + 1]
           res == ProcessPdf(batch.profile, batch.image_map, batch.threshold, batch.manual_names,
                             batch.text_replacements, batch.secondary, path, pdf)
           sanitized == SanitizedPath(path)
       IN IF res.raised
          THEN batch' = [phase |-> "raised", device_id |-> batch.device_id,
                         template_id |-> batch.template_id]
          ELSE batch' = [batch EXCEPT
                            !.done = @ + 1,
                            !.manual_names = res.manual_names,
                            !.low_conf = @ \o res.report,
                            !.outs = IF res.out = NoOut THEN @
                                     ELSE [q \in DOMAIN @ \cup {sanitized} |->
                                             IF q = sanitized THEN res.out ELSE @[q]],
                            !.last = [path |-> path, pdf |-> pdf, res |-> res]]
    /\ UNCHANGED <<pc, req, resp, sem, waiters, nextReq, tplFiles, passFiles, everPassed, savedIds, call, sbStore, staticDir>>

\* process_batch line 431: return low_conf
BatchReturn ==
    /\ batch.phase = "run"
    /\ batch.done = Len(batch.pdf_paths)
    /\ batch' = [batch EXCEPT !.phase = "returned"]
    /\ UNCHANGED <<pc, req, resp, sem, waiters, nextReq, tplFiles, passFiles, everPassed, savedIds, call, sbStore, staticDir>>

\* the handler that called process_batch goes on after the return: sanitize
\* lines 361-401 (handler = "template"), sanitize_existing lines 563-585
\* (handler = "existing"), with the out_dir process_batch has filled
PackageAfterBatch(handler, client, job_id) ==
    /\ batch.phase = "returned"
    /\ call.fn = "none"
    /\ LET paths == [i \in 1..Len(batch.pdf_paths) |-> [path |-> batch.pdf_paths[i], pages |-> 0]]
           pkg == PackageOf(handler, client, job_id, batch.outs, paths)
       IN /\ call' = [fn |-> "package", handler |-> handler, pkg |-> pkg]
          /\ staticDir' = StaticWrite(staticDir, pkg, job_id, TRUE)
    /\ UNCHANGED <<pc, req, resp, sem, waiters, nextReq, tplFiles, passFiles, everPassed, savedIds, batch, sbStore>>

\* ------------------------------------------------ inputs of process_batch

\* threshold: float = 0.9, in percent
DefaultThreshold == 90

BoxA == <<1, 1, 3, 3>>

BoxB == <<5, 1, 7, 3>>

BoxC == <<1, 6, 3, 9>>

\* where a manual name is printed
NameBox == <<1, 4, 3, 5>>

Zone(page, bbox, paper, source_index) ==
    [page |-> page, bbox |-> bbox, paper |-> paper,
     orientation |-> IF paper = NoTag THEN NoTag ELSE "portrait", source_index |-> source_index]

\* reference contents: zones 0 and 1 show the same picture, zone 2 another
HashOne == <<0, 0, 0, 0, 0, 0, 0, 0, 0, 0>>

HashTwo == <<1, 1, 1, 1, 1, 0, 0, 0, 0, 0>>

RefContents ==
    <<[text |-> <<"a", "b">>, image_hash |-> HashOne],
      [text |-> <<"a", "d">>, image_hash |-> HashOne],
      [text |-> <<"c", "d">>, image_hash |-> HashTwo]>>

\* a stored profile: zones 0 (BoxB) and 1 (BoxA) from source 0, zone 2 (BoxC)
\* from source 1, all of page 0; an image for zone 1
Profile(paper) ==
    [writer |-> 0,
     rectangles |-> <<Zone(0, BoxB, paper, 0), Zone(0, BoxA, paper, 0), Zone(0, BoxC, paper, 1)>>,
     contents |-> RefContents,
     image_map |-> [i \in {1} |-> <<"l", "o", "f">>]]

TplUntagged == <<"a", "_", "v", "1">>

TplTagged == <<"a", "_", "v", "2">>

TplMissing == <<"a", "_", "v", "3">>

\* what a page shows in a zone: the reference, the reference with one bit of
\* the picture and the text changed, or with two bits of the picture changed
Shown(ref, variant) ==
    CASE variant = "same" -> ref
      [] variant = "near" -> [text |-> <<"e", "f">>,
                              image_hash |-> [i \in 1..Len(ref.image_hash) |->
                                                IF i <= 1 THEN 1 - ref.image_hash[i] ELSE ref.image_hash[i]]]
      [] OTHER -> [text |-> ref.text,
                   image_hash |-> [i \in 1..Len(ref.image_hash) |->
                                     IF i <= 2 THEN 1 - ref.image_hash[i] ELSE ref.image_hash[i]]]

\* a page of paper A4 (8 x 10) or A5 (4 x 5); BoxB and BoxC lie outside an A5 page
Page(paper, variants) ==
    [paper |-> paper,
     w |-> IF paper = "A4" THEN 8 ELSE 4,
     h |-> IF paper = "A4" THEN 10 ELSE 5,
     rotation |-> 0,
     content |-> [b \in {BoxA, BoxB, BoxC} |->
                    CASE b = BoxB -> Shown(RefContents[1], variants[1])
                      [] b = BoxA -> Shown(RefContents[2], variants[2])
                      [] OTHER -> Shown(RefContents[3], variants[3])]]

\* what the zones 0, 1, 2 of a page show
PageContents ==
    {<<"same", "same", "same">>, <<"far", "same", "same">>, <<"far", "far", "same">>,
     <<"same", "same", "far">>, <<"far", "far", "far">>, <<"near", "far", "far">>}

ManualName == <<"B", "o", "b">>

\* a readable PDF of n pages: all A4, all A5, or A5 first and A4 after; page 0
\* shows c0 and the other pages show c1; hit: the manual name occurs on page 0
MakePdf(n, pattern, c0, c1, hit) ==
    [readable |-> TRUE,
     pages |-> [i \in 1..n |->
                    Page(IF pattern = "mixed" THEN (IF i = 1 THEN "A5" ELSE "A4") ELSE pattern,
                         IF i = 1 THEN c0 ELSE c1)],
     words |-> [k \in (IF hit THEN {Lower(ManualName)} ELSE {}) |-> [page |-> 0, bbox |-> NameBox]]]

\* a file that fitz cannot open
BrokenPdf == [readable |-> FALSE, pages |-> <<>>, words |-> [k \in {} |-> NameBox]]

Pdfs(maxPages, hits) ==
    {MakePdf(n, pattern, c0, c1, hit) :
        n \in 1..maxPages, pattern \in {"A4", "A5", "mixed"}, c0 \in PageContents,
        c1 \in PageContents, hit \in hits} \cup {BrokenPdf}

\* the files a call can find: any PDF at the first path, a one-page PDF after
PdfChoices ==
    IF batch.phase # "run" THEN {}
    ELSE Pdfs(IF batch.done = 0 THEN MaxPages ELSE 1,
              IF batch.manual_names = <<>> THEN {FALSE} ELSE BOOLEAN)

BatchPaths == {<<UploadPath(<<"a">> \o DotPdf)>>,
               <<UploadPath(<<"a">> \o DotPdf), UploadPath(<<"b">> \o DotPdf)>>}

\* the store holds an untagged and a tagged template of device "d"
InitBatch ==
    /\ batch = NoBatch
    /\ call = NoCall
    /\ sbStore = NoMirror
    /\ staticDir = EmptyDir
    /\ pc = [r \in Reqs |-> "idle"]
    /\ req = [r \in Reqs |-> NoReq]
    /\ resp = Response(0, 0, NoId, <<>>)
    /\ sem = MAX_CONCURRENT_JOBS
    /\ waiters = <<>>
    /\ nextReq = 0
    /\ tplFiles = _save_profile_local(
                    _save_profile_local([q \in {} |-> [writer |-> 0]], DeviceD, TplUntagged, Profile(NoTag)),
                    DeviceD, TplTagged, Profile("A4"))
    /\ passFiles = [q \in {} |-> [ok |-> TRUE, data |-> EmptyMap]]
    /\ everPassed = [q \in {} |-> EmptyMap]
    /\ savedIds = {<<DeviceD, TplUntagged>>, <<DeviceD, TplTagged>>}

\* process_batch called with and without device_id
NextBatch ==
    \/ \E device_id \in {NoId, DeviceD}, template_id \in {TplUntagged, TplTagged, TplMissing},
          manual_names \in {<<>>, <<ManualName>>}, pdf_paths \in BatchPaths :
            BatchStart(device_id, template_id, DefaultThreshold, manual_names, pdf_paths)
    \/ \E pdf \in PdfChoices : BatchPdf(pdf)
    \/ BatchReturn
    \/ \E handler \in {"template", "existing"} : PackageAfterBatch(handler, <<"a">>, 1)

SpecBatch == InitBatch /\ [][NextBatch]_vars

\* ------------------------------------------- helper functions called directly

\* greatest length of a generated file name
MaxNameLen == 4

\* characters of the generated file names: a letter, the dot, both path
\* separators, the blank and a character the filter drops
NameAlphabet == {"a", ".", "/", "\\", " ", "!"}

\* the example of the documentation
PasswdName ==
    <<".", ".", "/", ".", ".", "/", "e", "t", "c", "/", "p", "a", "s", "s", "w", "d", ".", "p", "d", "f">>

UploadNames == UNION {[1..n -> NameAlphabet] : n \in 0..MaxNameLen} \cup {PasswdName}

\* everything but the helper call stays as it is
CallFrame ==
    UNCHANGED <<pc, req, resp, sem, waiters, nextReq, tplFiles, passFiles, everPassed, savedIds,
                batch, sbStore, staticDir>>

\* sanitize lines 232-233: safe = _safe_filename(file.filename) and
\* dst = os.path.join(tmp_input, safe)
CallSafeFilename(name) ==
    /\ call.fn = "none"
    /\ call' = [fn |-> "_safe_filename", name |-> name, result |-> _safe_filename(name),
                dst |-> UploadPath(name)]
    /\ CallFrame

\* the name and the extension of os.path.splitext
SplitExt(base) == [name |-> Stem(base), ext |-> SubSeq(base, Len(Stem(base)) + 1, Len(base))]

\* a renaming that tries the suffix _2 and nothing after it
FirstFreeArcTwoOnly(base, arc, idx, existing) ==
    IF arc \in existing THEN SplitExt(base).name \o <<"_">> \o IntToStr(idx) \o SplitExt(base).ext ELSE arc

\* zip_append_with_versions lines 104-108: the while loop over idx
RECURSIVE FirstFreeArc(_, _, _, _)
FirstFreeArc(base, arc, idx, existing) ==
    IF arc \in existing
    THEN FirstFreeArc(base, SplitExt(base).name \o <<"_">> \o IntToStr(idx) \o SplitExt(base).ext,
                      idx + 1, existing)
    ELSE arc

\* zip_append_with_versions lines 101-110: the entries after the files are
\* written; an entry is the arcname and the file stored under it
RECURSIVE ZipWrite(_, _)
ZipWrite(entries, file_paths) ==
    IF file_paths = <<>> THEN entries
    ELSE LET fp == Head(file_paths)
             base == Basename(fp)
             existing == {entries[k].arc : k \in 1..Len(entries)}
             arc == FirstFreeArc(base, base, 2, existing)
         IN ZipWrite(Append(entries, [arc |-> arc, fp |-> fp]), Tail(file_paths))

\* calls of zip_append_with_versions on one archive
MaxAppends == 2

\* files handed to a call: the same base name in two folders, a base name
\* that looks like a renamed one, and a name without extension
AppendFiles ==
    {<<"x", "/", "l", ".", "p">>, <<"y", "/", "l", ".", "p">>, <<"x", "/", "l", "_", "2", ".", "p">>,
     <<"x", "/", "l", "_", "3", ".", "p">>, <<"x", "/", "m">>}

AppendLists == {<<f>> : f \in AppendFiles} \cup {<<f, g>> : f \in AppendFiles, g \in AppendFiles}

\* zip_append_with_versions(zip_path, file_paths): mode "w" when the archive
\* does not exist, mode "a" after
CallZipAppend(file_paths) ==
    /\ call.fn \in {"none", "zip_append_with_versions"}
    /\ call.fn = "zip_append_with_versions" => call.calls < MaxAppends
    /\ call' = [fn |-> "zip_append_with_versions",
                calls |-> IF call.fn = "none" THEN 1 ELSE call.calls + 1,
                entries |-> ZipWrite(IF call.fn = "none" THEN <<>> ELSE call.entries, file_paths)]
    /\ CallFrame

\* most entries of a low-confidence report handed to process_low_conf_batch
MaxLowConf == 4

\* a report of n entries
LowConfOfLen(n) == [i \in 1..n |-> [pdf |-> <<"u", "/">> \o IntToStr(i) \o DotPdf, low_rects |-> <<>>]]

\* a guard that lets fewer than 4 entries through, as the docstring has it
LowConfGuardBelowFour(low_conf) == ~(Len(low_conf) < 4)

\* process_low_conf_batch lines 459-464: the two early returns
LowConfGuard(low_conf) == low_conf = <<>> \/ Len(low_conf) < 3

\* process_low_conf_batch lines 459-487: the guard, then the template
\* resolution. step "returned": return []; "raised": an exception leaves the
\* function; "resolved": the profile chosen_template_id is loaded next (line
\* 490) and the entries are processed. tm: a TemplateManager was constructed;
\* loads: the template ids handed to load_profile
process_low_conf_batch(files, store, low_conf, new_template_id, device_id) ==
    IF LowConfGuard(low_conf)
    THEN [step |-> "returned", result |-> <<>>, tm |-> FALSE, loads |-> <<>>]
    ELSE LET tm == TemplateManagerInit(device_id)
             client == parse_template_id(new_template_id).client
             expected_next == next_version_id(files, tm.device_id, client)
         IN IF tm.raised
            THEN [step |-> "raised", result |-> <<>>, tm |-> TRUE, loads |-> <<>>]
            ELSE IF load_profile(files, store, tm.device_id, new_template_id).found
            THEN [step |-> "resolved", result |-> <<>>, tm |-> TRUE, loads |-> <<new_template_id>>]
            ELSE IF load_profile(files, store, tm.device_id, expected_next).found
            THEN [step |-> "resolved", result |-> <<>>, tm |-> TRUE,
                  loads |-> <<new_template_id, expected_next>>]
            ELSE [step |-> "raised", result |-> <<>>, tm |-> TRUE,
                  loads |-> <<new_template_id, expected_next>>]

CallLowConfBatch(n, new_template_id, device_id) ==
    /\ call.fn = "none"
    /\ call' = [fn |-> "process_low_conf_batch", n |-> n, device_id |-> device_id,
                out |-> process_low_conf_batch(tplFiles, sbStore, LowConfOfLen(n), new_template_id,
                                               device_id)]
    /\ CallFrame

\* page sizes, coordinates and angles handed to transform_bbox_for_rotation
RotCoords == {50, 150}

RotBoxes == {<<x1, y1, x2, y2>> : x1 \in RotCoords, y1 \in RotCoords, x2 \in RotCoords, y2 \in RotCoords}

RotPages == {<<600, 800>>, <<800, 600>>}

RotAngles == {0, 90, 180, 270, 360, 450, -90, -180, 45, 91}

CallTransform(bbox, pw, ph, pr) ==
    /\ call.fn = "none"
    /\ call' = [fn |-> "transform_bbox_for_rotation", bbox |-> bbox, pw |-> pw, ph |-> ph, pr |-> pr,
                result |-> transform_bbox_for_rotation(bbox, pw, ph, pr)]
    /\ CallFrame

\* an overlap test that does not count a shared boundary
overlaps_open(b1, b2, tol) ==
    ~(b1[3] <= b2[1] - tol \/ b1[1] >= b2[3] + tol \/ b1[4] <= b2[2] - tol \/ b1[2] >= b2[4] + tol)

\* template_utils.overlaps
overlaps(b1, b2, tol) ==
    ~(b1[3] < b2[1] - tol \/ b1[1] > b2[3] + tol \/ b1[4] < b2[2] - tol \/ b1[2] > b2[4] + tol)

\* greatest tolerance handed to overlaps
MaxTol == 2

OverlapCoords == {0, 10, 11, 12, 20}

OverlapBoxes ==
    {<<x1, y1, x2, y2>> : x1 \in OverlapCoords, y1 \in OverlapCoords,
                          x2 \in OverlapCoords, y2 \in OverlapCoords}

\* the first argument: the rectangle of the documented examples, and
\* rectangles that touch it, lie beside it, and lie inside it
OverlapFirst == {<<0, 0, 10, 10>>, <<10, 10, 20, 20>>, <<12, 0, 20, 10>>, <<0, 0, 0, 0>>}

CallOverlaps(b1, b2, tol) ==
    /\ call.fn = "none"
    /\ call' = [fn |-> "overlaps", b1 |-> b1, b2 |-> b2, tol |-> tol,
                result |-> overlaps(b1, b2, tol), swapped |-> overlaps(b2, b1, tol)]
    /\ CallFrame

NextUtil ==
    \/ \E name \in UploadNames : CallSafeFilename(name)
    \/ \E file_paths \in AppendLists : CallZipAppend(file_paths)
    \/ \E n \in 0..MaxLowConf, new_template_id \in {TplUntagged, TplMissing}, device_id \in {NoId, DeviceD} :
            CallLowConfBatch(n, new_template_id, device_id)
    \/ \E bbox \in RotBoxes, page \in RotPages, pr \in RotAngles :
            CallTransform(bbox, page[1], page[2], pr)
    \/ \E b1 \in OverlapFirst, b2 \in {b \in OverlapBoxes : b[1] <= b[3] /\ b[2] <= b[4]}, tol \in 0..MaxTol :
            CallOverlaps(b1, b2, tol)

SpecUtil == InitBatch /\ [][NextUtil]_vars

\* ------------------------------------------- the manual names of a call

\* process_text_only lines 710-717: collect_manual_replacements gets
\* manual_names or [] as the caller passed it
TextOnlyManualNames(manual_names, text_replacements) == manual_names

\* the list handed to collect_manual_replacements for the PDFs 1..n of one
\* call, none of them secondary. process_batch assigns the normalized list
\* to its own parameter manual_names (lines 335-336), which the next turn of
\* the loop normalizes again; process_text_only passes its parameter
RECURSIVE HandedNames(_, _, _, _)
HandedNames(fn, manual_names, text_replacements, n) ==
    IF n = 0 THEN <<>>
    ELSE IF fn = "process_text_only"
    THEN HandedNames(fn, manual_names, text_replacements, n - 1)
            \o <<TextOnlyManualNames(manual_names, text_replacements)>>
    ELSE LET before == HandedNames(fn, manual_names, text_replacements, n - 1)
         IN Append(before,
                   NormalizeManualNames(IF n = 1 THEN manual_names ELSE before[n - 1],
                                        text_replacements))

\* PDFs of a call
NamesPdfs == 2

\* manual_names as callers send them
NameLists ==
    {<<>>, <<ManualName>>, <<<<" ", "A", "b", " ">>>>, <<ManualName, Lower(ManualName)>>,
     <<<<"b", " ", " ", "c">>>>}

\* keys of text_replacements: with a capital, without, with two blanks, blank
ReplacementKeys == {<<"A", "l">>, <<"a", "b">>, <<"a", " ", " ", "b">>, <<" ">>}

\* text_replacements of at most two keys; NoId is a null value
ReplacementMaps ==
    UNION {[S -> {NoId, <<"t">>}] : S \in {T \in SUBSET ReplacementKeys : Cardinality(T) <= 2}}

\* process_batch or process_text_only run on NamesPdfs PDFs that have
\* matching zones
CallManualNames(fn, manual_names, text_replacements) ==
    /\ call.fn = "none"
    /\ call' = [fn |-> fn, manual_names |-> manual_names, text_replacements |-> text_replacements,
                handed |-> HandedNames(fn, manual_names, text_replacements, NamesPdfs)]
    /\ CallFrame

NextNames ==
    \/ \E manual_names \in NameLists, text_replacements \in ReplacementMaps :
            CallManualNames("process_batch", manual_names, text_replacements)
    \/ \E manual_names \in NameLists, text_replacements \in ReplacementMaps :
            CallManualNames("process_text_only", manual_names, text_replacements)

SpecNames == InitBatch /\ [][NextNames]_vars

\* ------------------------------------------------------ llm_utils._chunk_text

\* the characters [.?!] that end a sentence
Stops == {".", "?", "!"}

\* re.split(r'(?<=[.?!])\s+', text): the text is cut at every run of blanks
\* that follows a stop, and the run is dropped; current is the piece read so
\* far
RECURSIVE SplitSentences(_, _)
SplitSentences(text, current) ==
    IF text = <<>> THEN <<current>>
    ELSE IF Head(text) = " " /\ current # <<>> /\ current[Len(current)] \in Stops
    THEN <<current>> \o SplitSentences(StripL(text), <<>>)
    ELSE SplitSentences(Tail(text), Append(current, Head(text)))

\* " ".join(parts)
RECURSIVE JoinBlank(_)
JoinBlank(parts) ==
    IF parts = <<>> THEN <<>>
    ELSE IF Len(parts) = 1 THEN parts[1]
    ELSE parts[1] \o <<" ">> \o JoinBlank(Tail(parts))

\* _chunk_text lines 27-36: the loop over the sentences and the last chunk
RECURSIVE ChunkLoop(_, _, _, _, _)
ChunkLoop(sentences, chunks, current, length, max_chars) ==
    IF sentences = <<>>
    THEN IF current # <<>> THEN Append(chunks, JoinBlank(current)) ELSE chunks
    ELSE IF length + Len(Head(sentences)) > max_chars
    THEN ChunkLoop(Tail(sentences), Append(chunks, JoinBlank(current)), <<Head(sentences)>>,
                   Len(Head(sentences)), max_chars)
    ELSE ChunkLoop(Tail(sentences), chunks, Append(current, Head(sentences)),
                   length + Len(Head(sentences)), max_chars)

\* llm_utils._chunk_text
_chunk_text(text, max_chars) == ChunkLoop(SplitSentences(text, <<>>), <<>>, <<>>, 0, max_chars)

\* max_chars of the calls (2000 where the caller passes none)
MaxChars == 3

\* longest text handed to _chunk_text
MaxTextLen == 6

Texts == UNION {[1..n -> {"a", ".", " "}] : n \in 0..MaxTextLen}

CallChunkText(text) ==
    /\ call.fn = "none"
    /\ call' = [fn |-> "_chunk_text", text |-> text, max_chars |-> MaxChars,
                chunks |-> _chunk_text(text, MaxChars)]
    /\ CallFrame

NextChunk == \E text \in Texts : CallChunkText(text)

SpecChunk == InitBatch /\ [][NextChunk]_vars

\* ------------------------------------- TemplateManager.save_profile_multi

\* extract_zones_content(..., _return_skips=True), the second result: the
\* rectangles as drawn of which content was extracted
RECURSIVE used_rects(_, _)
used_rects(pdf, rects) ==
    IF rects = <<>> THEN <<>>
    ELSE LET rect == Head(rects)
             page_count == Len(pdf.pages)
             page_num == IF rect.page < 0 THEN 0
                         ELSE IF rect.page >= page_count THEN page_count - 1
                         ELSE rect.page
             orig_bbox == _normalized_bbox(rect.bbox)
             rest == used_rects(pdf, Tail(rects))
         IN IF ~_bbox_inside_page(pdf.pages[page_num + 1], orig_bbox) THEN rest
            ELSE <<[page |-> page_num, bbox |-> orig_bbox, paper |-> rect.paper,
                    orientation |-> rect.orientation]>> \o rest

\* save_profile_multi lines 304-308: the file_idx values in the order of
\* their first zone (the key order of the dict grouped)
GroupKeys(rectangles) == Distinct([i \in 1..Len(rectangles) |-> rectangles[i].file_idx])

\* save_profile_multi lines 314-357 for the group of one file_idx: nothing
\* when index_to_path has no file for it, else the rectangles used, tagged
\* with the source index, and their contents
SaveGroup(rectangles, index_to_path, fidx) ==
    LET rects_for_pdf == SelectSeq(rectangles, LAMBDA r : r.file_idx = fidx)
        norm_rects == [k \in 1..Len(rects_for_pdf) |->
                        [page |-> IF rects_for_pdf[k].page < 0 THEN 0 ELSE rects_for_pdf[k].page,
                         bbox |-> _normalized_bbox(rects_for_pdf[k].bbox),
                         paper |-> rects_for_pdf[k].paper,
                         orientation |-> rects_for_pdf[k].orientation]]
    IN IF fidx \notin DOMAIN index_to_path (* the upload index is 0-based *)
       THEN [used |-> <<>>, cnt |-> <<>>]
       ELSE LET used == used_rects(index_to_path[fidx], norm_rects)
            IN [used |-> [k \in 1..Len(used) |-> used[k] @@ [source_index |-> fidx]],
                cnt |-> extract_zones_content(index_to_path[fidx], norm_rects)]

\* TemplateManager.save_profile_multi: raised for no rectangle and for no
\* content, else the profile that is written
save_profile_multi(rectangles, index_to_path, image_map) ==
    LET keys == GroupKeys(rectangles)
        groups == [g \in 1..Len(keys) |-> SaveGroup(rectangles, index_to_path, keys[g])]
        contents == Flatten([g \in 1..Len(keys) |-> groups[g].cnt])
    IN IF rectangles = <<>> \/ contents = <<>>
       THEN [raised |-> TRUE]
       ELSE [raised |-> FALSE,
             profile |-> [rectangles |-> Flatten([g \in 1..Len(keys) |-> groups[g].used]),
                          contents |-> [k \in 1..Len(contents) |->
                                            [text |-> contents[k].text,
                                             image_hash |-> contents[k].image_hash]],
                          image_map |-> image_map]]

\* template_zones as submitted: BoxB, BoxA, BoxC in this order, on page 0,
\* each drawn on upload 0 or upload 1
SubmittedZones ==
    UNION {{[k \in 1..n |-> [page |-> 0, bbox |-> <<BoxB, BoxA, BoxC>>[k], paper |-> NoTag,
                              orientation |-> NoTag, file_idx |-> f[k]]] : f \in [1..n -> {0, 1}]}
            : n \in 1..3}

\* index_to_path of sanitize line 236: the uploads by their index; a page of
\* paper A5 has room for BoxA alone
SourcePdf(paper) == MakePdf(1, paper, <<"same", "same", "same">>, <<"same", "same", "same">>, FALSE)

Uploads ==
    {[i \in {0} |-> SourcePdf("A4")], [i \in {0} |-> SourcePdf("A5")],
     [i \in {0, 1} |-> SourcePdf(IF i = 0 THEN "A4" ELSE "A5")],
     [i \in {0, 1} |-> SourcePdf("A4")]}

\* image_map as submitted: the image of one zone, by its submitted index
ImageMaps == {[i \in S |-> <<"l", "o", "f">>] : S \in {{}, {0}, {1}, {2}}}

CallSaveProfileMulti(rectangles, index_to_path, image_map) ==
    /\ call.fn = "none"
    /\ call' = [fn |-> "save_profile_multi", rectangles |-> rectangles, image_map |-> image_map,
                uploads |-> DOMAIN index_to_path,
                out |-> save_profile_multi(rectangles, index_to_path, image_map)]
    /\ CallFrame

NextSave ==
    \E rectangles \in SubmittedZones, index_to_path \in Uploads, image_map \in ImageMaps :
        CallSaveProfileMulti(rectangles, index_to_path, image_map)

SpecSave == InitBatch /\ [][NextSave]_vars

\* ------------------------------------- TemplateManagers of several devices

\* device ids as callers send them; "!" is not empty and _sanitize empties it
DeviceE == <<"e">>

DeviceBang == <<"!">>

DeviceIds == {DeviceD, DeviceE, DeviceBang}

\* a versioned and a legacy flat template id
TplLegacy == <<"a">>

TemplateIds == {<<"a", "_", "v", "1">>, TplLegacy}

\* save_profile / save_profile_multi, the two closing lines: the profile goes
\* to the local file and to the mirror; writer is the device of the manager
TmSave(device_id, template_id) ==
    /\ ~TemplateManagerInit(device_id).raised
    /\ LET dev == TemplateManagerInit(device_id).device_id
           profile == [writer |-> dev, template_id |-> template_id]
       IN /\ tplFiles' = _save_profile_local(tplFiles, dev, template_id, profile)
          /\ sbStore' = _save_profile_remote(sbStore, template_id, profile)
          /\ call' = [fn |-> "save_profile", device_id |-> dev, template_id |-> template_id]
    /\ UNCHANGED <<pc, req, resp, sem, waiters, nextReq, passFiles, everPassed, savedIds, batch, staticDir>>

\* TemplateManager(device_id).load_profile(template_id)
TmLoad(device_id, template_id) ==
    /\ ~TemplateManagerInit(device_id).raised
    /\ call' = [fn |-> "load_profile", device_id |-> TemplateManagerInit(device_id).device_id,
                template_id |-> template_id,
                result |-> load_profile(tplFiles, sbStore, TemplateManagerInit(device_id).device_id, template_id)]
    /\ UNCHANGED <<pc, req, resp, sem, waiters, nextReq, tplFiles, passFiles, everPassed, savedIds, batch, sbStore, staticDir>>

\* TemplateManager(device_id).list_versions(client)
TmList(device_id, client) ==
    /\ ~TemplateManagerInit(device_id).raised
    /\ call' = [fn |-> "list_versions", device_id |-> TemplateManagerInit(device_id).device_id,
                client |-> client,
                result |-> list_versions(tplFiles, TemplateManagerInit(device_id).device_id, client)]
    /\ UNCHANGED <<pc, req, resp, sem, waiters, nextReq, tplFiles, passFiles, everPassed, savedIds, batch, sbStore, staticDir>>

\* an empty store, with the mirror configured (SUPABASE_URL and a key set) or not
InitDevices ==
    /\ batch = NoBatch
    /\ call = NoCall
    /\ sbStore \in {[configured |-> c, objects |-> [q \in {} |-> [writer |-> <<>>]]] : c \in BOOLEAN}
    /\ staticDir = EmptyDir
    /\ pc = [r \in Reqs |-> "idle"]
    /\ req = [r \in Reqs |-> NoReq]
    /\ resp = Response(0, 0, NoId, <<>>)
    /\ sem = MAX_CONCURRENT_JOBS
    /\ waiters = <<>>
    /\ nextReq = 0
    /\ tplFiles = [q \in {} |-> [writer |-> <<>>]]
    /\ passFiles = [q \in {} |-> [ok |-> TRUE, data |-> EmptyMap]]
    /\ everPassed = [q \in {} |-> EmptyMap]
    /\ savedIds = {}

NextDevices ==
    \/ \E device_id \in DeviceIds, template_id \in TemplateIds : TmSave(device_id, template_id)
    \/ \E device_id \in DeviceIds, template_id \in TemplateIds : TmLoad(device_id, template_id)
    \/ \E device_id \in DeviceIds : TmList(device_id, TplLegacy)

SpecDevices == InitDevices /\ [][NextDevices]_vars

\* ------------------------------------------------------------- properties

Inside == {r \in Reqs : pc[r] = "run"}

\* C1: under every interleaving of Sanitize, Sanitize-Existing and
\* Generate-Sensitive-Terms requests, the number of requests inside the
\* section guarded by SEM never exceeds MAX_CONCURRENT_JOBS
C1_AtMostMaxInside == Cardinality(Inside) <= MAX_CONCURRENT_JOBS

\* the gate is full with a template, an existing and a terms request, and a
\* further request waits
C1_Witness ==
    /\ Cardinality(Inside) = MAX_CONCURRENT_JOBS
    /\ {req[r].kind : r \in Inside} = {"template", "existing", "terms"}
    /\ waiters # <<>>

\* C2: every request that entered the gate gives its permit back exactly once
\* when its worker execution ends, by return or by raise (the free permits and
\* the requests inside always add up to MAX_CONCURRENT_JOBS), and so, every
\* worker execution ending, every waiting request gets inside
C2_ReleasedOnceAndNoStarvation ==
    /\ [](sem >= 0 /\ sem + Cardinality(Inside) = MAX_CONCURRENT_JOBS)
    /\ \A r \in Reqs : (pc[r] = "wait") ~> (pc[r] = "run")

\* a worker execution has raised (the response of an earlier request is an
\* error while later requests wait) and its permit is free for the first waiter
C2_Witness ==
    /\ waiters # <<>>
    /\ sem > 0
    /\ resp.status = 500
    /\ resp.req < Head(waiters)

\* the pages a report lists for one file
FailingPages(low_conf, path) ==
    UNION {DOMAIN low_conf[i].low_rects : i \in {j \in 1..Len(low_conf) : low_conf[j].pdf = path}}

\* C3: when a request that runs the template pipeline ends, then for every
\* uploaded file with n > 0 pages, prior PassLog set P and failing pages F
\* reported by the pipeline, the stored PassLog set of the file is
\* P \cup ((0..n-1) \ F) and the returned report lists exactly the pages of F
\* outside that set
C3_PassLogFilterAndGrowth ==
    [][\A r \in Reqs :
        (pc[r] = "run" /\ pc'[r] = "done" /\ req[r].kind \in {"template", "existing"}) =>
            LET q == req[r]
                prior == _load_passlog(passFiles, q.device_id, q.client)
                after == _load_passlog(passFiles', q.device_id, q.client)
                reported == RunWorker(q, TRUE).low_conf
            IN \A i \in 1..Len(q.paths) :
                q.paths[i].pages > 0 =>
                    LET key == _norm_key_from_path(q.paths[i].path)
                        F == FailingPages(reported, q.paths[i].path)
                        updated == MapGet(prior, key) \cup ((0..(q.paths[i].pages - 1)) \ F)
                    IN /\ MapGet(after, key) = updated
                       /\ resp'.req = r
                       /\ FailingPages(resp'.low_conf, q.paths[i].path) = F \ updated]_vars

\* C4: the pages stored in a PassLog file for a normalized file name are never
\* fewer than the pages earlier calls stored there, also after a load that
\* could not parse the stored file
C4_PassLogMonotone ==
    \A path \in DOMAIN everPassed :
        (path \in DOMAIN passFiles /\ passFiles[path].ok) =>
            \A k \in DOMAIN everPassed[path] :
                everPassed[path][k] \subseteq MapGet(passFiles[path].data, k)

\* the device folder the handlers' TemplateManager works in
StoreDevice == TemplateManagerInit(DeviceD).device_id

\* the N of a template id "<client>_v<N>"
IdVersion(tid) == StrToInt(SubSeq(tid, Len(tid) - TrailingDigits(tid) + 1, Len(tid)))

\* the version numbers saved so far for a client: the saved ids that
\* parse_template_id reads as a version of that client
VersionsSaved(dev, client) ==
    {parse_template_id(id[2]).ver :
        id \in {x \in savedIds : /\ x[1] = dev
                                 /\ parse_template_id(x[2]).versioned
                                 /\ parse_template_id(x[2]).client = client}}

\* C5: for a client with no saved version latest_version_number is 0,
\* latest_version_id is absent and next_version_id is "<client>_v1"; once
\* versions 1..k are saved, latest_version_id is "<client>_vk" and
\* next_version_id is "<client>_v(k+1)"
C5_VersionAllocation ==
    \A name \in StoreClients :
        LET c == _safe_client_id(name)
            saved == VersionsSaved(StoreDevice, c)
            k == Cardinality(saved)
        IN /\ saved = 1..k
           /\ latest_version_number(tplFiles, StoreDevice, c) = k
           /\ latest_version_id(tplFiles, StoreDevice, c)
                = (IF k = 0 THEN NoId ELSE c \o UnderV \o IntToStr(k))
           /\ next_version_id(tplFiles, StoreDevice, c) = c \o UnderV \o IntToStr(k + 1)

\* versions 1 and 2 of client "a" are saved and version 2 is the latest
C5_Witness ==
    /\ VersionsSaved(StoreDevice, <<"a">>) = {1, 2}
    /\ latest_version_id(tplFiles, StoreDevice, <<"a">>) = <<"a", "_", "v", "2">>

\* C6: every successful template save of a Sanitize request writes a profile
\* file that did not exist before, no stored profile is replaced, and the saved
\* version number is one more than the greatest saved before for that
\* (device_id, client), starting at 1; for every client _safe_client_id produces
C6_NewVersionsAreNewFiles ==
    [][\A r \in Reqs :
        (pc[r] = "idle" /\ req'[r].kind = "template") =>
            LET q == req'[r]
                dev == TemplateManagerInit(q.device_id).device_id
                before == {IdVersion(x[2]) :
                            x \in {y \in savedIds : y[1] = dev /\ StartsWith(y[2], q.client \o UnderV)}}
            IN /\ _resolve_profile_path(dev, q.template_id) \notin DOMAIN tplFiles
               /\ \A p \in DOMAIN tplFiles : p \in DOMAIN tplFiles' /\ tplFiles'[p] = tplFiles[p]
               /\ \A n \in before : n < IdVersion(q.template_id)
               /\ IdVersion(q.template_id) = Cardinality(before) + 1]_vars

\* in-flight Sanitize requests that saved a template
InFlightTemplate == {r \in Reqs : pc[r] \in {"wait", "run"} /\ req[r].kind = "template"}

Scored == batch.phase \in {"run", "returned"} /\ batch.done > 0 /\ ~batch.last.res.nomatch

\* the rectangle of a score record is in the set handed to the redaction engine
Redacted(rec) ==
    LET res == batch.last.res
        page == batch.last.pdf.pages[rec.page + 1]
    IN \E k \in 1..Len(res.redacted) :
        /\ "tidx" \in DOMAIN res.redacted[k]
        /\ res.redacted[k].tidx = rec.tidx
        /\ res.redacted[k].page = rec.page
        /\ res.redacted[k].bbox = transform_bbox_for_rotation(rec.bbox, page.w, page.h, page.rotation)

ReportedBoxes(page) ==
    LET report == batch.last.res.report
    IN IF report = <<>> THEN {}
       ELSE IF page \notin DOMAIN report[1].low_rects THEN {}
       ELSE Range(report[1].low_rects[page])

\* C9: every scored zone below the threshold whose group has no passing
\* member on the page is among the low-confidence bboxes reported for the
\* page, whatever the other groups of the page do
C9_FailingZoneReported ==
    Scored =>
        \A k \in 1..Len(batch.last.res.records) :
            LET rec == batch.last.res.records[k]
                mates == {m \in 1..Len(batch.last.res.records) :
                            /\ batch.last.res.records[m].page = rec.page
                            /\ batch.last.res.records[m].group_id = rec.group_id}
            IN (/\ rec.iscore < batch.threshold
                /\ \A m \in mates : batch.last.res.records[m].iscore < batch.threshold)
                    => rec.bbox \in ReportedBoxes(rec.page)

\* no zone of the profile carries tags that match the layout of a page
NoZoneMatches(profile, pdf) ==
    \A i \in 1..Len(pdf.pages), k \in 1..Len(profile.rectangles) :
        LET r == profile.rectangles[k]
            orient == IF pdf.pages[i].w > pdf.pages[i].h THEN "landscape" ELSE "portrait"
        IN ~(/\ r.paper \in {NoTag, pdf.pages[i].paper}
             /\ r.orientation \in {NoTag, orient})

IsKept(c) == IsAlnum(c) \/ c \in {"-", "_", ".", "(", ")", " "}

\* the last path component of a name, "/" and "\" both separating
LastComponent(name) ==
    LET seps == {i \in 1..Len(name) : name[i] \in {"/", "\\"}}
        last == IF seps = {} THEN 0 ELSE CHOOSE i \in seps : \A j \in seps : j <= i
    IN SubSeq(name, last + 1, Len(name))

\* C13: for every input _safe_filename returns a non-empty name without path
\* separator, made of alphanumerics and "-_.() " only, equal to the filtered
\* last path component of the input, or "file.pdf" when that is empty, and the
\* name is that of a file inside the uploads folder: neither the folder itself
\* (".") nor its parent ("..")
C13_SafeFilename ==
    call.fn = "_safe_filename" =>
        LET filtered == Strip(SelectSeq(LastComponent(Strip(call.name)), IsKept))
        IN /\ call.result # <<>>
           /\ \A i \in 1..Len(call.result) : call.result[i] \notin {"/", "\\"} /\ IsKept(call.result[i])
           /\ call.result = (IF filtered = <<>> THEN <<"f", "i", "l", "e">> \o DotPdf ELSE filtered)
           /\ call.name = PasswdName => call.result = <<"p", "a", "s", "s", "w", "d">> \o DotPdf
           /\ call.result \notin {<<".">>, <<".", ".">>}
           /\ call.dst = <<"u", "/">> \o call.result

\* the arcname name_<i>.ext of a base name
VersionedArc(base, i) == SplitExt(base).name \o <<"_">> \o IntToStr(i) \o SplitExt(base).ext

\* C14: after any sequence of zip_append_with_versions calls on one archive
\* the arcnames are pairwise distinct, no call replaces or removes an earlier
\* entry, and a file whose base name is taken is stored under the first free
\* name among name_2.ext, name_3.ext, ...
C14_ZipAppendVersions ==
    /\ [](call.fn = "zip_append_with_versions" =>
            \A k \in 1..Len(call.entries) :
                LET earlier == {call.entries[j].arc : j \in 1..(k - 1)}
                    base == Basename(call.entries[k].fp)
                    arc == call.entries[k].arc
                IN /\ arc \notin earlier
                   /\ IF base \notin earlier THEN arc = base
                      ELSE \E i \in 2..(k + 1) :
                            /\ arc = VersionedArc(base, i)
                            /\ \A j \in 2..(i - 1) : VersionedArc(base, j) \in earlier)
    /\ [][(call.fn = "zip_append_with_versions" /\ call'.fn = "zip_append_with_versions") =>
            /\ Len(call'.entries) > Len(call.entries)
            /\ SubSeq(call'.entries, 1, Len(call.entries)) = call.entries]_vars

\* logo.png appended twice and once more: the three entries are l.p, l_2.p
\* and, l_2.p being taken, l_3.p; the second call appended to the first
C14_Witness ==
    /\ call.fn = "zip_append_with_versions"
    /\ call.calls = 2
    /\ [k \in 1..Len(call.entries) |-> call.entries[k].arc]
        = <<<<"l", ".", "p">>, <<"l", "_", "2", ".", "p">>, <<"l", "_", "3", ".", "p">>>>
    /\ \A k \in 1..Len(call.entries) : Basename(call.entries[k].fp) = <<"l", ".", "p">>

RotationTable(bbox, pw, ph, angle) ==
    CASE angle = 90 -> <<bbox[2], pw - bbox[3], bbox[4], pw - bbox[1]>>
      [] angle = 180 -> <<pw - bbox[3], ph - bbox[4], pw - bbox[1], ph - bbox[2]>>
      [] angle = 270 -> <<ph - bbox[4], bbox[1], ph - bbox[2], bbox[3]>>
      [] OTHER -> bbox

\* the corners of a box in order
Ordered(b) ==
    <<IF b[1] <= b[3] THEN b[1] ELSE b[3], IF b[2] <= b[4] THEN b[2] ELSE b[4],
      IF b[1] <= b[3] THEN b[3] ELSE b[1], IF b[2] <= b[4] THEN b[4] ELSE b[2]>>

Grown(b, tol) == <<b[1] - tol, b[2] - tol, b[3] + tol, b[4] + tol>>

\* two closed boxes have a point in common
SharePoint(a, b) ==
    /\ (IF a[1] >= b[1] THEN a[1] ELSE b[1]) <= (IF a[3] <= b[3] THEN a[3] ELSE b[3])
    /\ (IF a[2] >= b[2] THEN a[2] ELSE b[2]) <= (IF a[4] <= b[4] THEN a[4] ELSE b[4])

\* the documented examples of overlaps
OverlapExamples ==
    /\ (call.b1 = <<0, 0, 10, 10>> /\ call.b2 = <<10, 10, 20, 20>> /\ call.tol = 0) => call.result
    /\ (call.b1 = <<0, 0, 10, 10>> /\ call.b2 = <<11, 11, 20, 20>> /\ call.tol = 0) => ~call.result

\* C17 as stated: overlaps(b1, b2, tol) is true exactly when the two
\* rectangles, each grown by tol, share a point; it is symmetric, and
\* rectangles that touch at a boundary or corner overlap at tol = 0
C17_OverlapsEachGrown ==
    call.fn = "overlaps" =>
        /\ call.result <=> SharePoint(Grown(call.b1, call.tol), Grown(call.b2, call.tol))
        /\ call.result = call.swapped
        /\ OverlapExamples

\* C17 amended: overlaps(b1, b2, tol) is true exactly when one rectangle grown
\* by tol shares a point with the other as it is (the gap between them is at
\* most tol on both axes); it is symmetric, and rectangles that touch at a
\* boundary or corner overlap at tol = 0
C17_OverlapsOneGrown ==
    call.fn = "overlaps" =>
        /\ call.result <=> SharePoint(Grown(call.b1, call.tol), call.b2)
        /\ call.result <=> SharePoint(call.b1, Grown(call.b2, call.tol))
        /\ call.result = call.swapped
        /\ OverlapExamples

\* rectangles one unit apart in both directions overlap at tol = 1
C17_Witness ==
    /\ call.fn = "overlaps"
    /\ call.b1 = <<0, 0, 10, 10>> /\ call.b2 = <<11, 11, 20, 20>> /\ call.tol = 1
    /\ call.result

\* C18: a failure while one PDF is processed is confined to that PDF: once
\* process_batch has loaded the profile and entered its loop, every turn of
\* the loop leaves the call running with the next PDF or returning its report
\* list; the call never ends by raising
C18_BadInputConfined ==
    [][batch.phase = "run" =>
        /\ batch'.phase \in {"run", "returned"}
        /\ batch'.done \in {batch.done, batch.done + 1}
        /\ batch'.pdf_paths = batch.pdf_paths]_vars

\* C19: the template stores of different devices are independent, with and
\* without the mirror: load_profile of a manager for device B returns only a
\* profile that was saved through a manager for B, and a save through a
\* manager for device A changes neither load_profile nor list_versions of a
\* manager for another device
C19_DevicesIndependent ==
    /\ [](call.fn = "load_profile" /\ call.result.found
            => call.result.profile.writer = call.device_id)
    /\ [][call'.fn = "save_profile" =>
            \A device_id \in DeviceIds :
                LET dev == TemplateManagerInit(device_id).device_id
                IN dev # call'.device_id =>
                    /\ \A template_id \in TemplateIds :
                          load_profile(tplFiles', sbStore', dev, template_id)
                            = load_profile(tplFiles, sbStore, dev, template_id)
                    /\ list_versions(tplFiles', dev, TplLegacy)
                            = list_versions(tplFiles, dev, TplLegacy)]_vars

\* C11: a Sanitize request with no zone, no manual name and no replacement
\* succeeds; its archive is not empty and holds, for every upload, an
\* unredacted copy named <stem>_sanitized.pdf; no template version is saved
C11_ManualOnlyPassThrough ==
    [][(\E r \in Reqs : pc[r] = "idle" /\ pc'[r] # "idle")
         /\ "input" \in DOMAIN resp' /\ resp'.input = "none" /\ resp' # resp
        => /\ resp'.status = 200
           /\ DOMAIN resp'.archive # {}
           /\ \A n \in DOMAIN resp'.archive : resp'.archive[n].kind = "copy"
           /\ tplFiles' = tplFiles
           /\ savedIds' = savedIds]_vars

JobQualified(name, job_id) ==
    \E i \in 1..Len(name) :
        /\ i + Len(IntToStr(job_id)) <= Len(name)
        /\ SubSeq(name, i, i + Len(IntToStr(job_id))) = <<"_">> \o IntToStr(job_id)

\* C20: every file a job writes into STATIC_DIR has a name qualified by the
\* id of the job, and no job writes a path that another job has written
C20_StaticNamesJobUnique ==
    /\ [](\A n \in DOMAIN staticDir : JobQualified(n, staticDir[n]))
    /\ [][\A n \in DOMAIN staticDir : staticDir'[n] = staticDir[n]]_vars

\* C21: every Sanitize, Sanitize-Existing or Generate-Sensitive-Terms
\* request that created a Job Workspace and whose handler returned a
\* response, success or structured error, has scheduled the deletion of the
\* workspace exactly once
C21_CleanupScheduledOnce ==
    ("workspace" \in DOMAIN resp /\ resp.workspace /\ resp.returned) => resp.cleanup = 1

\* C22: a Sanitize request with zones, and a Sanitize-Existing request with
\* an existing template, run the template pipeline on the profile stored
\* under the device_id and template_id of the request: process_batch does
\* not fail before it processes a PDF and the request, its uploads being
\* readable, is answered with the report of that template
C22_TemplatePipelineRuns ==
    [][\A r \in Reqs :
        (/\ pc[r] = "run" /\ pc'[r] = "done"
         /\ req[r].kind \in {"template", "existing"}
         /\ AllReadable(req[r].paths))
        => /\ ~RunWorker(req[r], TRUE).raised
           /\ resp'.req = r
           /\ resp'.status = 200
           /\ resp'.template_id = req[r].template_id]_vars

\* what extract_zones_content reads in a rectangle of a page, where the
\* rectangle lies inside the page
ZoneContent(page, bbox) ==
    [text |-> RegionContent(page, transform_bbox_for_rotation(_normalized_bbox(bbox), page.w,
                                                              page.h, page.rotation)).text,
     image_hash |-> RegionContent(page, _normalized_bbox(bbox)).image_hash]

\* C23: every score record of a replicated zone (page p, template index
\* tidx) is computed from the content extracted from that zone on page p
\* and from the reference content contents[tidx], also when the extraction
\* skips replicated rectangles that lie outside their page
C23_ScoresPairedWithOwnZone ==
    Scored =>
        \A k \in 1..Len(batch.last.res.records) :
            LET rec == batch.last.res.records[k]
                page == batch.last.pdf.pages[rec.page + 1]
                ref == batch.profile.contents[rec.tidx + 1]
            IN /\ _bbox_inside_page(page, _normalized_bbox(rec.bbox))
               /\ rec.tscore = score_text(ref.text, ZoneContent(page, rec.bbox).text)
               /\ rec.iscore = score_image(ref.image_hash, ZoneContent(page, rec.bbox).image_hash)

\* the manual names of the call occur in the PDF processed last at these
\* rectangles
ManualOccurrences ==
    {batch.last.pdf.words[w] :
        w \in {v \in DOMAIN batch.last.pdf.words :
                \E i \in 1..Len(batch.manual_names) : Lower(Strip(batch.manual_names[i])) = v}}

\* the rectangles redacted in the sanitized output of the PDF processed last
RedactedInOutput ==
    IF batch.last.res.out.kind = "redacted"
    THEN {[page |-> r.page, bbox |-> r.bbox] : r \in Range(batch.last.res.out.rects)}
    ELSE {}

ReplacedKeys(text_replacements) ==
    {_norm_phrase(k) : k \in {q \in DOMAIN text_replacements : text_replacements[q] # NoId}} \ {<<>>}

\* C25: in batch mode and in manual-only mode, secondary unset, the list of
\* manual names handed to collect_manual_replacements contains every key of
\* text_replacements that has a non-null value (in its whitespace-normalized
\* form), also when the key is not in manual_names
C25_ReplacementKeysHanded ==
    call.fn \in {"process_batch", "process_text_only"}
        => \A i \in 1..Len(call.handed) :
                ReplacedKeys(call.text_replacements) \subseteq Range(call.handed[i])

\* C28: within one process_batch call the list of manual names used for the
\* k-th PDF equals the list used for the first: lower-casing and trimming,
\* then augmenting with the replacement keys, is idempotent
C28_NormalizationIdempotent ==
    call.fn = "process_batch"
        => \A i \in 1..Len(call.handed) : call.handed[i] = call.handed[1]

\* the chunks are the sentences in their order, each sentence in one chunk:
\* some non-decreasing assignment of the sentences to the chunks makes every
\* chunk the sentences assigned to it, joined by blanks
SentencesInOrder(sentences, chunks) ==
    \E f \in [1..Len(sentences) -> 1..Len(chunks)] :
        /\ \A i, j \in 1..Len(sentences) : i <= j => f[i] <= f[j]
        /\ \A c \in 1..Len(chunks) :
                LET of_c == SelectSeq([i \in 1..Len(sentences) |-> i], LAMBDA i : f[i] = c)
                IN chunks[c] = JoinBlank([k \in 1..Len(of_c) |-> sentences[of_c[k]]])

\* C26: for every text, every chunk _chunk_text returns is non-empty and at
\* most max_chars long, and the chunks in order contain every sentence of
\* the text once, in the order of the text
C26_ChunksBoundedAndComplete ==
    call.fn = "_chunk_text"
        => /\ \A c \in 1..Len(call.chunks) :
                    call.chunks[c] # <<>> /\ Len(call.chunks[c]) <= call.max_chars
           /\ SentencesInOrder(SplitSentences(call.text, <<>>), call.chunks)

\* the pages the PassLog of the tenant of request state q holds for a path
PassedPages(pfiles, q, path) ==
    MapGet(_load_passlog(pfiles, q.device_id, q.client), _norm_key_from_path(path))

\* C27: a manual-only Sanitize request records every page 0..n-1 of every
\* readable upload as passed in the PassLog of the tenant, and a later
\* template run of the same tenant on a file of that name returns a
\* low-confidence report from which those pages are removed
C27_ManualPassesMaskLaterRuns ==
    /\ [][\A r \in Reqs :
            (/\ pc[r] = "run" /\ pc'[r] = "done"
             /\ req[r].kind = "manual"
             /\ AllReadable(req[r].paths))
            => \A i \in 1..Len(req[r].paths) :
                    0..(req[r].paths[i].pages - 1)
                        \subseteq PassedPages(passFiles', req[r], req[r].paths[i].path)]_vars
    /\ [][\A r \in Reqs :
            (/\ pc[r] = "run" /\ pc'[r] = "done"
             /\ req[r].kind \in {"template", "existing"}
             /\ AllReadable(req[r].paths)
             /\ \E i \in 1..Len(req[r].paths) :
                    PassedPages(passFiles, req[r], req[r].paths[i].path) # {})
            => /\ resp'.req = r
               /\ resp'.status = 200
               /\ \A k \in 1..Len(resp'.low_conf) :
                    DOMAIN resp'.low_conf[k].low_rects
                        \cap PassedPages(passFiles, req[r], resp'.low_conf[k].pdf) = {}]_vars

\* C29: for every PDF of process_batch, image placement and the replacement
\* overlay are invoked on the sanitized path only after the redaction
\* engine has produced the sanitized file of the PDF in this run; with an
\* empty combined rectangle set and no file produced, neither is invoked
C29_EnginesAfterSanitizedFile ==
    (batch.phase \in {"run", "returned"} /\ batch.done > 0)
        => LET res == batch.last.res
           IN \A k \in 1..Len(res.ops) :
                res.ops[k] \in {"place", "overlay"}
                    => /\ res.out.kind = "redacted"
                       /\ \E j \in 1..(k - 1) : res.ops[j] = "redact"

\* the rectangle saved under template index tidx is the zone submitted
\* under that index
SameZone(saved, submitted, tidx) ==
    /\ tidx + 1 \in DOMAIN submitted
    /\ saved[tidx + 1].bbox = _normalized_bbox(submitted[tidx + 1].bbox)
    /\ saved[tidx + 1].page = submitted[tidx + 1].page
    /\ saved[tidx + 1].source_index = submitted[tidx + 1].file_idx

\* C30: save_profile_multi keeps the zone indices: the index of every zone
\* in the rectangles and contents of the saved profile is its index in the
\* submitted template_zones, whatever the file_idx values and whatever is
\* skipped, so that the key k of image_map, a submitted index, names the
\* zone for which process_batch looks up image_map[tidx]
C30_ZoneIndicesPreserved ==
    (call.fn = "save_profile_multi" /\ ~call.out.raised)
        => /\ Len(call.out.profile.contents) = Len(call.out.profile.rectangles)
           /\ \A tidx \in 0..(Len(call.out.profile.rectangles) - 1) :
                SameZone(call.out.profile.rectangles, call.rectangles, tidx)
           /\ \A k \in DOMAIN call.out.profile.image_map :
                k + 1 \in DOMAIN call.out.profile.rectangles
                    => SameZone(call.out.profile.rectangles, call.rectangles, k)
====
